---- MODULE Spec2Model ----
(***************************************************************************)
(* Model of the openclaw-wechat bridge: the Gateway Session                *)
(* (bridge/gateway.mjs, class GatewayConnection), the Messaging-Service    *)
(* Session's WebSocket (wechat.mjs, class WechatService), the backoff      *)
(* policy (utils.mjs, backoffDelay) and the per-message handler of the     *)
(* Bridge Orchestrator (bridge.mjs, Bridge.handleWechatMessage).           *)
(*                                                                         *)
(* Node.js runs every handler to completion, so each handler, timer        *)
(* callback and synchronous prefix of an async function is one action.     *)
(***************************************************************************)
EXTENDS Integers, Sequences, FiniteSets, TLC

(***************************************************************************)
(* Bounds of the model                                                     *)
(***************************************************************************)
\* number of request()/callAgent() invocations that allocate an id
MaxCalls == 1
\* the same, in the specification with a single transport
MaxCallsMulti == 2
\* number of WebSocket objects the Gateway Session may create
MaxSockets == 2
\* the same, in the specification of the reconnect logic alone
MaxSocketsRc == 4
\* number of assistant stream events handled per agent call
MaxEvents == 1
\* the same, in the specification of the stream accumulation
MaxEventsStream == 3
\* config.maxReconnectAttempts of the modelled configuration
MaxReconnectAttempts == 2
\* number of WebSocket objects the Messaging-Service Session may create
MaxWxSockets == 4
\* largest attempt number passed to backoffDelay
MaxBoAttempt == 6
\* number of inbound messages dispatched to the Bridge
MaxMsgs == 2
\* number of WebSocket objects in the specification of the handshake
MaxSocketsHs == 2
\* number of connect.challenge events handled per transport
MaxChallenges == 2
\* number of inbound messages whose reply dispatch is followed in full
MaxMsgsReply == 1
\* number of words and paths in a reply text
MaxReplyLen == 2
\* largest declared total length of a download, in bytes
MaxTotalLen == 4
\* number of sendFileMessage() calls
MaxFileSends == 2
\* number of inbound gateway frames that are not frame objects
MaxRawFrames == 2
\* number of characters of a reply text that is scanned for paths
MaxTextLen == 7
\* waitForLogin: the timeout in poll intervals, and the longest time one
\* request or timer may take beyond its nominal duration
MaxLoginTimeout == 3
MaxLatency == 1
\* longest content string of a push frame, in pieces
MaxXmlLen == 2

(***************************************************************************)
(* Text: a string is a sequence of chunks; the chunk " " is white space.   *)
(***************************************************************************)
WS == " "

RECURSIVE TrimStart(_)
TrimStart(s) ==
  IF s # <<>> /\ Head(s) = WS THEN TrimStart(Tail(s)) ELSE s

RECURSIVE TrimEnd(_)
TrimEnd(s) ==
  IF s # <<>> /\ s[Len(s)] = WS THEN TrimEnd(SubSeq(s, 1, Len(s) - 1)) ELSE s

\* String.prototype.trim as used on the stream buffer
Trim(s) == TrimEnd(TrimStart(s))

(***************************************************************************)
(* Ids.  callAgent uses 'agent-' + uuid, request a bare uuid; the          *)
(* handshake uses the reserved id 'connect'.  A uuid is a fresh number.    *)
(***************************************************************************)
AgentId(n) == <<"agent", n>>
PlainId(n) == <<"plain", n>>
ConnectId == <<"connect", 0>>
Larger(a, b) == IF a > b THEN a ELSE b
IdNums == 1..Larger(Larger(MaxCalls, MaxCallsMulti), MaxMsgs)
CallIds == {AgentId(n) : n \in IdNums} \cup {PlainId(n) : n \in IdNums}
\* message.id?.startsWith('agent-')
StartsWithAgent(id) == id[1] = "agent"

Sockets == 1..Larger(Larger(MaxSockets, MaxSocketsRc), MaxSocketsHs)
WxSockets == 1..MaxWxSockets

VARIABLES
  ws,                \* this.ws: 0 is null, else the socket it refers to
  sock,              \* state of every WebSocket object created so far
  nsock,             \* number of WebSocket objects created
  connTimer,         \* sockets whose connect() timeout timer is armed
  connPromise,       \* outcome of the promise returned by each connect()
  connected,         \* this.connected
  authenticated,     \* this.authenticated
  shouldReconnect,   \* this.shouldReconnect
  reconnectAttempts, \* this.reconnectAttempts
  rcBackoff,         \* scheduleReconnect() calls awaiting backoffDelay
  rcTimer,           \* reconnect timers armed by scheduleReconnect()
  pendingRequests,   \* this.pendingRequests: id -> entry
  timers,            \* ids whose request/agent timeout timer is armed
  issued,            \* the ids allocated so far, one per invocation
  sent,              \* ids of the request frames written to a transport, in order
  settles,           \* per id, the calls made to the caller's resolve/reject
  evlog,             \* per id, the assistant stream data handled (history)
  acked,             \* agent ids acknowledged by an 'accepted' res (history)
  origin,            \* who created each socket (history)
  wxWs,              \* WechatService this.ws: 0 is null, else its socket
  wxSock,            \* state of every WebSocket WechatService created
  wxNsock,           \* number of WebSocket objects WechatService created
  wxConnected,       \* WechatService this.wsConnected
  wxShouldReconnect, \* WechatService this.shouldReconnect
  wxAttempts,        \* WechatService this.reconnectAttempts
  wxBackoff,         \* scheduleWsReconnect() calls awaiting backoffDelay
  wxTimer,           \* reconnect timers armed by scheduleWsReconnect()
  wxDelays,          \* the delayTime of each scheduleWsReconnect() (history)
  wxOrigin,          \* who created each WechatService socket (history)
  boPc,              \* position of one backoffDelay() call
  boArgs,            \* its arguments attempt, baseDelay, maxDelay
  boResult,          \* its waitTime, then its return value
  allowed,           \* config.allowedUsers: the wxids on the allow-list
  msgs,              \* one record per handleWechatMessage() invocation
  challenges,        \* per socket, the connect.challenge events it delivered
  connReqs,          \* per socket, the connect requests written to it
  answers,           \* per socket, the last res 'connect' it delivered
  download,          \* one downloadImage() / downloadFile() call
  fileSends,         \* one record per sendFileMessage() call, in order
  rawFrames,         \* the inbound gateway frames that were dropped (history)
  scan,              \* one scan of a reply text by both path extractors
  login,             \* one Bridge.checkLoginStatus() call
  push,              \* one push frame given to WechatService.handleWsMessage()
  rcWaits            \* per scheduleReconnect() call, the time it has waited (history)

connVars == <<ws, sock, nsock, connTimer, connPromise, connected,
              authenticated, shouldReconnect, reconnectAttempts,
              rcBackoff, rcTimer>>
connHist == <<origin>>
callVars == <<pendingRequests, timers, issued, sent, settles>>
callHist == <<evlog, acked>>
wxVars == <<wxWs, wxSock, wxNsock, wxConnected, wxShouldReconnect,
            wxAttempts, wxBackoff, wxTimer, wxDelays, wxOrigin>>
boVars == <<boPc, boArgs, boResult>>
brVars == <<allowed, msgs>>
hsVars == <<challenges, connReqs, answers>>
svcVars == <<download, fileSends, rawFrames, scan, login, push, rcWaits>>
\* the service state that a download / a file send / a raw frame / a scan
\* leaves alone
svcButDownload == <<fileSends, rawFrames, scan, login, push, rcWaits>>
svcButFileSends == <<download, rawFrames, scan, login, push, rcWaits>>
svcButRawFrames == <<download, fileSends, scan, login, push, rcWaits>>
svcButScan == <<download, fileSends, rawFrames, login, push, rcWaits>>
svcButLogin == <<download, fileSends, rawFrames, scan, push, rcWaits>>
svcButWaits == <<download, fileSends, rawFrames, scan, login, push>>
svcButPush == <<download, fileSends, rawFrames, scan, login, rcWaits>>
gwVars == <<connVars, connHist, callVars, callHist>>
nonGateway == <<wxVars, boVars, brVars, hsVars, svcVars>>
vars == <<gwVars, wxVars, boVars, brVars, hsVars, svcVars>>

(***************************************************************************)
(* Inbound stream data of an 'agent' event with stream 'assistant'         *)
(***************************************************************************)
\* a field that is absent (not a string)
NoStr == <<"undefined">>
Strings == {<<"Hel">>, <<"lo">>, <<WS, "world">>}
AssistantData == [text : Strings \cup {NoStr}, delta : Strings \cup {NoStr}]
\* the stream data the Gateway Session specification draws from
\* the one stream event of the replies the Bridge dispatches
DataReply == [text |-> <<WS, "world">>, delta |-> NoStr]
DataMain == {[text |-> <<WS, "world">>, delta |-> NoStr],
             [text |-> NoStr, delta |-> <<"lo">>]}

(***************************************************************************)
(* Helpers translated from the handlers                                    *)
(***************************************************************************)
\* (variant: a text snapshot is appended like a delta)
AssistantUpdate_Append(buffer, d) ==
  IF d.text # NoStr THEN buffer \o d.text
  ELSE IF d.delta # NoStr THEN buffer \o d.delta
  ELSE buffer

\* callAgent eventHandler, stream 'assistant': a string text replaces the
\* buffer, otherwise a string delta is appended
AssistantUpdate(buffer, d) ==
  IF d.text # NoStr THEN d.text
  ELSE IF d.delta # NoStr THEN buffer \o d.delta
  ELSE buffer

\* clearTimeout(timeout) of the call with this id
ClearTimeout(ts, id) == ts \ {id}

\* the caller's resolve/reject is invoked
Settle(st, id, kind, via, val) ==
  [st EXCEPT ![id] = Append(@, [kind |-> kind, via |-> via, val |-> val])]

\* this.pendingRequests.delete(id)
MapDelete(m, id) == [x \in (DOMAIN m) \ {id} |-> m[x]]

\* this.pendingRequests.set(id, entry)
MapSet(m, id, e) == [x \in (DOMAIN m) \cup {id} |-> IF x = id THEN e ELSE m[x]]

\* send(): the frame reaches the transport iff this.connected, this.ws is
\* set and ws.send() succeeds, i.e. that socket is OPEN
SendOk(c, w, sk) == c /\ w # 0 /\ sk[w] = "open"

\* ws.close() on a socket: a CONNECTING one aborts its handshake, an OPEN
\* one starts the closing handshake, else no effect
WsClose(sk, w) ==
  IF w = 0 THEN sk
  ELSE IF sk[w] = "connecting" THEN [sk EXCEPT ![w] = "aborting"]
  ELSE IF sk[w] = "open" THEN [sk EXCEPT ![w] = "closing"]
  ELSE sk

\* the final state of a socket: "failed" if it closes without having been
\* open (ws emits 'error' then 'close'), else "closed"
ClosedState(st) == IF st \in {"connecting", "aborting"} THEN "failed" ELSE "closed"

\* (variant: the cap is compared with > instead of >=)
WillSchedule_OffByOne(sr, att) == sr /\ ~(att > MaxReconnectAttempts)

\* scheduleReconnect(): whether it goes on to schedule a reconnect
WillSchedule(sr, att) == sr /\ ~(att >= MaxReconnectAttempts)

\* the next fresh uuid
NextN == Len(issued) + 1
Issued == {issued[i] : i \in 1..Len(issued)}

(***************************************************************************)
(* Initial state: the state after the constructor                          *)
(***************************************************************************)
InitGateway ==
  /\ ws = 0
  /\ sock = [s \in Sockets |-> "none"]
  /\ nsock = 0
  /\ connTimer = {}
  /\ connPromise = [s \in Sockets |-> "none"]
  /\ connected = FALSE
  /\ authenticated = FALSE
  /\ shouldReconnect = TRUE
  /\ reconnectAttempts = 0
  /\ rcBackoff = 0
  /\ rcTimer = 0
  /\ pendingRequests = << >>
  /\ timers = {}
  /\ issued = << >>
  /\ sent = << >>
  /\ settles = [id \in CallIds |-> << >>]
  /\ evlog = [id \in CallIds |-> << >>]
  /\ acked = {}
  /\ origin = [s \in Sockets |-> "none"]
  /\ challenges = [s \in Sockets |-> 0]
  /\ connReqs = [s \in Sockets |-> 0]
  /\ answers = [s \in Sockets |-> "none"]

(***************************************************************************)
(* connect(): creates a WebSocket, arms the 15 s timer                     *)
(***************************************************************************)
DoConnect(limit, by) ==
  /\ nsock < limit
  /\ nsock' = nsock + 1
  /\ ws' = nsock + 1
  /\ sock' = [sock EXCEPT ![nsock + 1] = "connecting"]
  /\ connTimer' = connTimer \cup {nsock + 1}
  /\ connPromise' = [connPromise EXCEPT ![nsock + 1] = "pending"]
  /\ origin' = [origin EXCEPT ![nsock + 1] = by]

\* connect() does not assign this.shouldReconnect
ShouldReconnectAfterConnect_Reset(sr) == TRUE
ShouldReconnectAfterConnect(sr) == sr

\* connect() called from outside (Bridge.connectGateway)
Connect(limit) ==
  /\ DoConnect(limit, "explicit")
  /\ shouldReconnect' = ShouldReconnectAfterConnect(shouldReconnect)
  /\ UNCHANGED <<connected, authenticated,
                 reconnectAttempts, rcBackoff, rcTimer>>
  /\ UNCHANGED <<callVars, callHist>>
  /\ UNCHANGED nonGateway

\* the timer of connect(): if not connected, close this.ws and reject
ConnectTimeout(s) ==
  /\ s \in connTimer
  /\ connTimer' = connTimer \ {s}
  /\ IF ~connected
     THEN /\ sock' = WsClose(sock, ws)
          /\ connPromise' = [connPromise EXCEPT
                               ![s] = IF @ = "pending" THEN "rejected" ELSE @]
     ELSE UNCHANGED <<sock, connPromise>>
  /\ UNCHANGED <<ws, nsock, connected, authenticated, shouldReconnect,
                 reconnectAttempts, rcBackoff, rcTimer>>
  /\ UNCHANGED <<connHist, callVars, callHist>>
  /\ UNCHANGED nonGateway

\* ws.on('open')
OnOpen(s) ==
  /\ sock[s] = "connecting"
  /\ sock' = [sock EXCEPT ![s] = "open"]
  /\ connected' = TRUE
  /\ reconnectAttempts' = 0
  /\ connTimer' = connTimer \ {s}
  /\ connPromise' = [connPromise EXCEPT
                       ![s] = IF @ = "pending" THEN "resolved" ELSE @]
  /\ UNCHANGED <<ws, nsock, authenticated, shouldReconnect, rcBackoff, rcTimer>>
  /\ UNCHANGED <<origin, callVars, callHist>>
  /\ UNCHANGED nonGateway

\* scheduleReconnect() is called by the close handler only, once per close
\* (variant: the error handler of a failed handshake calls it as well)
ScheduledAfterClose_AndError(n) == n + 2
ScheduledAfterClose(n) == n + 1

\* the close handler does not touch this.pendingRequests
PendingAfterClose_Cleared(m) == << >>
PendingAfterClose(m) == m

\* ws.on('close') (after ws.on('error') when the handshake failed): the
\* flags are cleared and, if shouldReconnect, scheduleReconnect() runs up
\* to its first await
DoOnClose(s) ==
  /\ sock[s] \in {"connecting", "aborting", "open", "closing"}
  /\ sock' = [sock EXCEPT ![s] = ClosedState(sock[s])]
  /\ connected' = FALSE
  /\ authenticated' = FALSE
  /\ connTimer' = connTimer \ {s}
  /\ IF WillSchedule(shouldReconnect, reconnectAttempts)
     THEN /\ reconnectAttempts' = reconnectAttempts + 1
          /\ rcBackoff' = ScheduledAfterClose(rcBackoff)
     ELSE UNCHANGED <<reconnectAttempts, rcBackoff>>
  /\ pendingRequests' = PendingAfterClose(pendingRequests)
  /\ UNCHANGED <<ws, nsock, connPromise, shouldReconnect, rcTimer>>
  /\ UNCHANGED <<origin, timers, issued, sent, settles, callHist>>
OnClose(s) == DoOnClose(s) /\ UNCHANGED nonGateway

\* scheduleReconnect() resumes after await backoffDelay(...): setTimeout
DoBackoffElapsed ==
  /\ rcBackoff > 0
  /\ rcBackoff' = rcBackoff - 1
  /\ rcTimer' = rcTimer + 1
  /\ UNCHANGED <<ws, sock, nsock, connTimer, connPromise, connected,
                 authenticated, shouldReconnect, reconnectAttempts>>
  /\ UNCHANGED <<connHist, callVars, callHist>>
BackoffElapsed == DoBackoffElapsed /\ UNCHANGED nonGateway

\* the timer callback of scheduleReconnect(): if (this.shouldReconnect)
TimerConnects_Always(sr) == TRUE
TimerConnects(sr) == sr

\* the reconnect timer fires: connect() if still shouldReconnect
DoReconnectTimer(limit) ==
  /\ rcTimer > 0
  /\ rcTimer' = rcTimer - 1
  /\ IF TimerConnects(shouldReconnect)
     THEN DoConnect(limit, "reconnect")
     ELSE UNCHANGED <<ws, sock, nsock, connTimer, connPromise, origin>>
  /\ UNCHANGED <<connected, authenticated, shouldReconnect,
                 reconnectAttempts, rcBackoff>>
  /\ UNCHANGED <<callVars, callHist>>
ReconnectTimer(limit) == DoReconnectTimer(limit) /\ UNCHANGED nonGateway

(***************************************************************************)
(* callAgent(params) and request(method, params)                           *)
(***************************************************************************)
\* (variant: callAgent checks the connection only)
AgentMayProceed_ConnectedOnly(c, a) == c

\* callAgent's precondition: throws unless connected and authenticated
AgentMayProceed(c, a) == c /\ a

\* request's precondition: throws unless connected
RequestMayProceed(c, a) == c

\* the promise body shared by both: arm the timer, register the entry, send
\* (variant: the promise body arms no timer)
TimersAfterRegister_NotArmed(ts, id) == ts

\* setTimeout(...) at the top of the promise body, before the frame is sent
TimersAfterRegister(ts, id) == ts \cup {id}

Register(id, kind) ==
  /\ timers' = TimersAfterRegister(timers, id)
  /\ pendingRequests' = MapSet(pendingRequests, id, [kind |-> kind, buffer |-> << >>])
  /\ sent' = IF SendOk(connected, ws, sock) THEN Append(sent, id) ELSE sent
  /\ issued' = Append(issued, id)
  /\ UNCHANGED settles

\* the precondition throws: the async function's promise is rejected and
\* nothing else happens
Throw(id, err) ==
  /\ settles' = Settle(settles, id, "reject", "throw", err)
  /\ issued' = Append(issued, id)
  /\ UNCHANGED <<pendingRequests, timers, sent>>

\* callAgent(params), whoever calls it
DoCallAgent(limit) ==
  /\ NextN <= limit
  /\ IF AgentMayProceed(connected, authenticated)
     THEN Register(AgentId(NextN), "agent")
     ELSE Throw(AgentId(NextN), IF connected THEN "notAuthenticated" ELSE "notConnected")
  /\ UNCHANGED <<connVars, connHist, callHist>>

\* callAgent(params) called on its own
CallAgent(limit) == DoCallAgent(limit) /\ UNCHANGED nonGateway

Request(limit) ==
  /\ NextN <= limit
  /\ IF RequestMayProceed(connected, authenticated)
     THEN Register(PlainId(NextN), "plain")
     ELSE Throw(PlainId(NextN), "notConnected")
  /\ UNCHANGED <<connVars, connHist, callHist>>
  /\ UNCHANGED nonGateway

\* (variant: the timer callback clears the whole table)
PendingAfterTimeout_Clear(m, id) == << >>

\* the timer callback's this.pendingRequests.delete(id)
PendingAfterTimeout(m, id) == MapDelete(m, id)

\* the setTimeout callback of a call: delete the entry, reject the caller
\* (the timer is armed exactly while it has neither fired nor been cleared)
CallTimeout(id) ==
  /\ id \in timers
  /\ timers' = timers \ {id}
  /\ pendingRequests' = PendingAfterTimeout(pendingRequests, id)
  /\ settles' = Settle(settles, id, "reject", "timeout", "timeout")
  /\ UNCHANGED <<issued, sent>>
  /\ UNCHANGED <<connVars, connHist, callHist>>
  /\ UNCHANGED nonGateway

(***************************************************************************)
(* handleMessage(message): frames delivered by a socket's 'message' event  *)
(***************************************************************************)
CanDeliver == \E s \in Sockets : sock[s] \in {"open", "closing"}

(***************************************************************************)
(* The 'message' handler of a transport: raw frames that are not a frame   *)
(* object (gateway.mjs, connect and handleMessage)                         *)
(***************************************************************************)
\* data.toString(): empty, white space, broken JSON, JSON values that are
\* not frame objects
RawFrames ==
  { << >>, <<WS>>, <<"{">>, <<"null">>, <<"42">>, <<WS, "42", WS>>,
    <<"[", "]">>, <<"{", "}">> }

\* JSON.parse(raw): the kind of the value, or a SyntaxError
JsonParse(raw) ==
  CASE Trim(raw) = <<"null">> -> "null"
    [] Trim(raw) = <<"42">> -> "number"
    [] Trim(raw) = <<"[", "]">> -> "array"
    [] Trim(raw) = <<"{", "}">> -> "object"
    [] OTHER -> "SyntaxError"

\* where the handling of the raw frame ends
Disposition(raw) ==
  IF raw = << >> \/ Trim(raw) = << >> THEN "empty"
  ELSE IF JsonParse(raw) = "SyntaxError" THEN "parseError"
  ELSE IF JsonParse(raw) \in {"null", "number"} THEN "invalidFormat"
  ELSE "noBranch"

\* the parse error is caught in the handler: the session stays as it is
ConnectedAfterRaw_Crash(c, disposition) ==
  IF disposition = "parseError" THEN FALSE ELSE c
ConnectedAfterRaw(c, disposition) == c

\* the 'message' event of a transport with such a raw frame
OnMessageRaw(raw) ==
  /\ CanDeliver
  /\ Len(rawFrames) < MaxRawFrames
  /\ rawFrames' = Append(rawFrames, [disposition |-> Disposition(raw),
                                      at |-> Len(issued)])
  /\ connected' = ConnectedAfterRaw(connected, Disposition(raw))
  /\ UNCHANGED <<ws, sock, nsock, connTimer, connPromise, authenticated,
                 shouldReconnect, reconnectAttempts, rcBackoff, rcTimer>>
  /\ UNCHANGED <<connHist, callVars, callHist>>
  /\ UNCHANGED <<svcButRawFrames, wxVars, boVars, brVars, hsVars>>

\* (variant: 'accepted' is not recognised)
IsAccepted_Never(id, status) == FALSE

\* whether a res frame for a pending entry is only the acknowledgement
IsAccepted(id, status) == StartsWithAgent(id) /\ status = "accepted"

\* (variant: the wrapper forgets clearTimeout)
TimersAfterRes_NoClear(ts, id) == ts

\* pending.resolve / pending.reject: clearTimeout(timeout), then settle
TimersAfterRes(ts, id) == ClearTimeout(ts, id)

\* (variant: a negative answer clears the flag)
AuthAfterConnectRes_Reset(a, ok) == ok

\* (variant: any answer to the connect request authenticates)
AuthAfterConnectRes_Always(a, ok) == TRUE

\* res 'connect': message.ok sets this.authenticated, else only a log
AuthAfterConnectRes(a, ok) == IF ok THEN TRUE ELSE a

\* {type:'res', id, ok, payload:{status}}
DoHandleRes(id, ok, status) ==
  /\ CanDeliver
  /\ IF id = ConnectId
     THEN /\ authenticated' = AuthAfterConnectRes(authenticated, ok)
          /\ UNCHANGED <<callVars, callHist>>
     ELSE /\ UNCHANGED authenticated
          /\ UNCHANGED evlog
          /\ IF id \in DOMAIN pendingRequests
             THEN IF IsAccepted(id, status)
                  THEN /\ acked' = acked \cup {id}
                       /\ UNCHANGED callVars
                  ELSE /\ pendingRequests' = MapDelete(pendingRequests, id)
                       /\ timers' = TimersAfterRes(timers, id)
                       /\ settles' = IF ok
                            THEN Settle(settles, id, "resolve", "res", "payload")
                            ELSE Settle(settles, id, "reject", "res", "remote")
                       /\ UNCHANGED <<issued, sent, acked>>
             ELSE UNCHANGED <<callVars, acked>>
  /\ UNCHANGED <<ws, sock, nsock, connTimer, connPromise, connected,
                 shouldReconnect, reconnectAttempts, rcBackoff, rcTimer>>
  /\ UNCHANGED connHist

\* a res frame, whichever transport delivers it
HandleRes(id, ok, status) == DoHandleRes(id, ok, status) /\ UNCHANGED nonGateway

\* {type:'event', event:'connected'}
HandleConnectedEvent ==
  /\ CanDeliver
  /\ authenticated' = TRUE
  /\ UNCHANGED <<ws, sock, nsock, connTimer, connPromise, connected,
                 shouldReconnect, reconnectAttempts, rcBackoff, rcTimer>>
  /\ UNCHANGED <<connHist, callVars, callHist>>
  /\ UNCHANGED nonGateway

\* (variant: the connect request is written twice)
ConnReqsAfterSend_Twice(cr, w) == [cr EXCEPT ![w] = @ + 2]

\* handleChallenge -> send(connectMsg): one frame written to this.ws
ConnReqsAfterSend(cr, w) == [cr EXCEPT ![w] = @ + 1]

\* {type:'event', event:'connect.challenge'} delivered by socket s:
\* handleChallenge(nonce) sends the connect request through send()
HandleChallenge(s) ==
  /\ sock[s] \in {"open", "closing"}
  /\ challenges[s] < MaxChallenges
  /\ challenges' = [challenges EXCEPT ![s] = @ + 1]
  /\ connReqs' = IF SendOk(connected, ws, sock)
                 THEN ConnReqsAfterSend(connReqs, ws) ELSE connReqs
  /\ UNCHANGED answers
  /\ UNCHANGED <<gwVars, wxVars, boVars, brVars, svcVars>>

\* {type:'res', id:'connect', ok} delivered by socket s
HandleConnectRes(s, ok) ==
  /\ sock[s] \in {"open", "closing"}
  /\ DoHandleRes(ConnectId, ok, "done")
  /\ answers' = [answers EXCEPT ![s] = IF ok THEN "ok" ELSE "refused"]
  /\ UNCHANGED <<challenges, connReqs>>
  /\ UNCHANGED <<wxVars, boVars, brVars, svcVars>>

\* the entry the agent event is dispatched to: pending?.eventHandler
HasEventHandler(m, runId) ==
  runId \in DOMAIN m /\ m[runId].kind = "agent"

\* (variant: the lifecycle branch forgets clearTimeout)
TimersAfterEnd_NoClear(ts, id) == ts

\* lifecycle 'end'/'error': clearTimeout(timeout), pendingRequests.delete(id)
TimersAfterEnd(ts, id) == ClearTimeout(ts, id)
\* (variant: the lifecycle branch clears the whole table)
PendingAfterEnd_All(m, id) == << >>
PendingAfterEnd(m, id) == MapDelete(m, id)

\* resolve({ text: buffer.trim() })
EndText(buffer) == Trim(buffer)

\* {type:'event', event:'agent', payload:{runId, stream:'assistant', data}}
HandleAssistant(runId, d, maxEv) ==
  /\ CanDeliver
  /\ IF HasEventHandler(pendingRequests, runId)
     THEN /\ Len(evlog[runId]) < maxEv
          /\ pendingRequests' = [pendingRequests EXCEPT
               ![runId].buffer = AssistantUpdate(@, d)]
          /\ evlog' = [evlog EXCEPT ![runId] = Append(@, d)]
          /\ UNCHANGED <<timers, issued, sent, settles>>
     ELSE UNCHANGED <<callVars, evlog>>
  /\ UNCHANGED <<connVars, connHist, acked>>
  /\ UNCHANGED nonGateway

\* {type:'event', event:'agent', payload:{runId, stream:'lifecycle', data:{phase}}}
HandleLifecycle(runId, phase) ==
  /\ CanDeliver
  /\ IF HasEventHandler(pendingRequests, runId) /\ phase \in {"end", "error"}
     THEN /\ timers' = TimersAfterEnd(timers, runId)
          /\ pendingRequests' = PendingAfterEnd(pendingRequests, runId)
          /\ settles' = IF phase = "end"
                        THEN Settle(settles, runId, "resolve", "end",
                                    EndText(pendingRequests[runId].buffer))
                        ELSE Settle(settles, runId, "reject", "error", "agentError")
          /\ UNCHANGED <<issued, sent>>
     ELSE UNCHANGED callVars
  /\ UNCHANGED <<connVars, connHist, evlog, acked>>
  /\ UNCHANGED nonGateway

(***************************************************************************)
(* disconnect()                                                            *)
(***************************************************************************)
\* for every entry: pending.reject(...) = clearTimeout + reject
SettlesAfterDisconnect(st, m) ==
  [id \in CallIds |-> IF id \in DOMAIN m
                      THEN Append(st[id], [kind |-> "reject", via |-> "disconnect", val |-> "closed"])
                      ELSE st[id]]
\* (variant: disconnect() rejects without clearing the timers)
TimersAfterDisconnect_Keep(ts, m) == ts

TimersAfterDisconnect(ts, m) == ts \ DOMAIN m

\* this.pendingRequests.clear()
PendingAfterDisconnect(m) == << >>

Disconnect ==
  /\ shouldReconnect' = FALSE
  /\ settles' = SettlesAfterDisconnect(settles, pendingRequests)
  /\ timers' = TimersAfterDisconnect(timers, pendingRequests)
  /\ pendingRequests' = PendingAfterDisconnect(pendingRequests)
  /\ sock' = WsClose(sock, ws)
  /\ ws' = 0
  /\ connected' = FALSE
  /\ authenticated' = FALSE
  /\ UNCHANGED <<nsock, connTimer, connPromise, reconnectAttempts, rcBackoff, rcTimer>>
  /\ UNCHANGED <<issued, sent>>
  /\ UNCHANGED <<connHist, callHist>>
  /\ UNCHANGED nonGateway

(***************************************************************************)
(* Backoff policy: utils.mjs, backoffDelay(attempt, baseDelay, maxDelay)   *)
(***************************************************************************)
DEFAULT_BACKOFF_BASE_DELAY_MS == 1000
DEFAULT_BACKOFF_MAX_DELAY_MS == 30000

\* Math.pow(2, n) for an integer n >= 0
RECURSIVE MathPow2(_)
MathPow2(n) == IF n = 0 THEN 1 ELSE 2 * MathPow2(n - 1)

MathMin(a, b) == IF a < b THEN a ELSE b

\* (variant: the exponent starts at 0 for the first retry)
WaitTime_FromZero(attempt, baseDelay, maxDelay) ==
  MathMin(baseDelay * MathPow2(attempt - 1), maxDelay)

\* const waitTime = Math.min(baseDelay * Math.pow(2, attempt), maxDelay)
WaitTime(attempt, baseDelay, maxDelay) ==
  MathMin(baseDelay * MathPow2(attempt), maxDelay)

\* the arguments one call is made with
BoBases == {0, 1, 1000, 2000, 3000}
BoMaxes == {0, 1000, 30000, 60000}
BoArgs == [attempt : 1..MaxBoAttempt, baseDelay : BoBases, maxDelay : BoMaxes]

InitNoBackoffCall ==
  /\ boPc = "idle"
  /\ boArgs = [attempt |-> 1, baseDelay |-> DEFAULT_BACKOFF_BASE_DELAY_MS,
               maxDelay |-> DEFAULT_BACKOFF_MAX_DELAY_MS]
  /\ boResult = 0

\* backoffDelay() up to its await: waitTime is computed, delay(waitTime)
BackoffDelayCall ==
  /\ boPc = "idle"
  /\ boPc' = "delay"
  /\ boResult' = WaitTime(boArgs.attempt, boArgs.baseDelay, boArgs.maxDelay)
  /\ UNCHANGED boArgs
  /\ UNCHANGED <<gwVars, wxVars, brVars, hsVars, svcVars>>

\* the delay has elapsed: return waitTime
BackoffDelayReturn ==
  /\ boPc = "delay"
  /\ boPc' = "returned"
  /\ UNCHANGED <<boArgs, boResult>>
  /\ UNCHANGED <<gwVars, wxVars, brVars, hsVars, svcVars>>

(***************************************************************************)
(* scheduleReconnect() with the time it spends: the delay(waitTime) inside *)
(* backoffDelay and the setTimeout(..., waitTime) that follows it.  A      *)
(* timer of d ms adds d to the time its call has waited.                   *)
(***************************************************************************)
\* backoffDelay(this.reconnectAttempts, 2000, 30000)
GatewayBaseDelay == 2000
GatewayMaxDelay == 30000
GatewayWaitTime(attempt) == WaitTime(attempt, GatewayBaseDelay, GatewayMaxDelay)

\* the calls of scheduleReconnect() at one stage
WaitsAt(stage) == {i \in 1..Len(rcWaits) : rcWaits[i].stage = stage}
\* the call i has waited its waitTime once more and moves on
Waited(i, stage) ==
  [rcWaits EXCEPT ![i].waited = @ + GatewayWaitTime(rcWaits[i].attempt),
                  ![i].stage = stage]

OnCloseTimed(s) ==
  /\ DoOnClose(s)
  /\ rcWaits' = IF WillSchedule(shouldReconnect, reconnectAttempts)
                THEN Append(rcWaits, [attempt |-> reconnectAttempts + 1,
                                      waited |-> 0, stage |-> "backoff"])
                ELSE rcWaits
  /\ UNCHANGED <<wxVars, boVars, brVars, hsVars, svcButWaits>>

BackoffElapsedTimed ==
  /\ DoBackoffElapsed
  /\ \E i \in WaitsAt("backoff") : rcWaits' = Waited(i, "timer")
  /\ UNCHANGED <<wxVars, boVars, brVars, hsVars, svcButWaits>>

ReconnectTimerTimed(limit) ==
  /\ DoReconnectTimer(limit)
  /\ \E i \in WaitsAt("timer") :
       rcWaits' = Waited(i, IF TimerConnects(shouldReconnect)
                               THEN "connect" ELSE "dropped")
  /\ UNCHANGED <<wxVars, boVars, brVars, hsVars, svcButWaits>>

(***************************************************************************)
(* Messaging-Service Session: the WebSocket of WechatService (wechat.mjs)  *)
(***************************************************************************)
RECONNECT_BASE_DELAY_MS == 2000
RECONNECT_MAX_DELAY_MS == 30000

InitWechat ==
  /\ wxWs = 0
  /\ wxSock = [s \in WxSockets |-> "none"]
  /\ wxNsock = 0
  /\ wxConnected = FALSE
  /\ wxShouldReconnect = TRUE
  /\ wxAttempts = 0
  /\ wxBackoff = 0
  /\ wxTimer = 0
  /\ wxDelays = << >>
  /\ wxOrigin = [s \in WxSockets |-> "none"]

\* connectWebSocket(): this.ws = new WebSocket(...)
DoConnectWebSocket(limit, by) ==
  /\ wxNsock < limit
  /\ wxNsock' = wxNsock + 1
  /\ wxWs' = wxNsock + 1
  /\ wxSock' = [wxSock EXCEPT ![wxNsock + 1] = "connecting"]
  /\ wxOrigin' = [wxOrigin EXCEPT ![wxNsock + 1] = by]

\* connectWebSocket() called from outside (Bridge.startWechatListener)
ConnectWebSocket(limit) ==
  /\ DoConnectWebSocket(limit, "explicit")
  /\ UNCHANGED <<wxConnected, wxShouldReconnect, wxAttempts, wxBackoff,
                 wxTimer, wxDelays>>
  /\ UNCHANGED <<gwVars, boVars, brVars, hsVars, svcVars>>

\* ws.on('open')
WxOnOpen(s) ==
  /\ wxSock[s] = "connecting"
  /\ wxSock' = [wxSock EXCEPT ![s] = "open"]
  /\ wxConnected' = TRUE
  /\ wxAttempts' = 0
  /\ UNCHANGED <<wxWs, wxNsock, wxShouldReconnect, wxBackoff, wxTimer,
                 wxDelays, wxOrigin>>
  /\ UNCHANGED <<gwVars, boVars, brVars, hsVars, svcVars>>

\* ws.on('close') (after ws.on('error') when the handshake failed):
\* wsConnected is cleared and, if shouldReconnect, scheduleWsReconnect()
\* runs up to its await
WxOnClose(s) ==
  /\ wxSock[s] \in {"connecting", "aborting", "open", "closing"}
  /\ wxSock' = [wxSock EXCEPT ![s] = ClosedState(wxSock[s])]
  /\ wxConnected' = FALSE
  /\ IF wxShouldReconnect
     THEN /\ wxAttempts' = wxAttempts + 1
          /\ wxBackoff' = wxBackoff + 1
          /\ wxDelays' = Append(wxDelays,
                                WaitTime(wxAttempts + 1, RECONNECT_BASE_DELAY_MS,
                                         RECONNECT_MAX_DELAY_MS))
     ELSE UNCHANGED <<wxAttempts, wxBackoff, wxDelays>>
  /\ UNCHANGED <<wxWs, wxNsock, wxShouldReconnect, wxTimer, wxOrigin>>
  /\ UNCHANGED <<gwVars, boVars, brVars, hsVars, svcVars>>

\* scheduleWsReconnect() resumes after await backoffDelay(...): setTimeout
WxBackoffElapsed ==
  /\ wxBackoff > 0
  /\ wxBackoff' = wxBackoff - 1
  /\ wxTimer' = wxTimer + 1
  /\ UNCHANGED <<wxWs, wxSock, wxNsock, wxConnected, wxShouldReconnect,
                 wxAttempts, wxDelays, wxOrigin>>
  /\ UNCHANGED <<gwVars, boVars, brVars, hsVars, svcVars>>

\* the reconnect timer fires: connectWebSocket(), whatever shouldReconnect
WxReconnectTimer(limit) ==
  /\ wxTimer > 0
  /\ wxTimer' = wxTimer - 1
  /\ DoConnectWebSocket(limit, "reconnect")
  /\ UNCHANGED <<wxConnected, wxShouldReconnect, wxAttempts, wxBackoff, wxDelays>>
  /\ UNCHANGED <<gwVars, boVars, brVars, hsVars, svcVars>>

\* disconnectWebSocket()
DisconnectWebSocket ==
  /\ wxShouldReconnect' = FALSE
  /\ wxSock' = WsClose(wxSock, wxWs)
  /\ wxWs' = 0
  /\ wxConnected' = FALSE
  /\ UNCHANGED <<wxNsock, wxAttempts, wxBackoff, wxTimer, wxDelays, wxOrigin>>
  /\ UNCHANGED <<gwVars, boVars, brVars, hsVars, svcVars>>

\* connectWebSocket() is called from outside only when the session is idle
WxIdle ==
  /\ wxBackoff = 0 /\ wxTimer = 0
  /\ \A s \in WxSockets : wxSock[s] \in {"none", "closed", "failed"}

\* a socket of WechatService that can still emit 'message'
WxCanDeliver == \E s \in WxSockets : wxSock[s] \in {"open", "closing"}

(***************************************************************************)
(* WechatService media download: downloadImage and downloadFile            *)
(* (wechat.mjs).  Numbers of the server's answer may be absent: NaN is    *)
(* what arithmetic on undefined gives.                                     *)
(***************************************************************************)
NaN == 0 - 1
\* StartPos / DataLen as the server may report them, chunkData.length
Positions == 0..MaxTotalLen
Reported == Positions \cup {NaN}
\* a + b and a || b of JavaScript on these numbers
JsAdd(a, b) == IF a = NaN \/ b = NaN THEN NaN ELSE a + b
JsOr(a, b) == IF a = NaN \/ a = 0 THEN b ELSE a
\* while (startPos < totalLen)
LoopTest(startPos, totalLen) == startPos # NaN /\ startPos < totalLen

IdleDownload ==
  [pc |-> "idle", kind |-> "none", totalLen |-> 0, startPos |-> 0,
   chunks |-> FALSE, result |-> "none"]

\* the record of a call that has returned
Returned(d, result) == [d EXCEPT !.pc = "done", !.result = result]

\* chunks.length > 0 after the loop
AfterLoop(d) == Returned(d, IF d.chunks THEN "buffer" ELSE "null")

\* startPos after a chunk with data
NextStartPos(kind, startPos, sp, len, blen) ==
  IF kind = "image" THEN JsAdd(sp, len)
  ELSE JsAdd(JsOr(sp, startPos), JsOr(len, blen))

\* downloadImage(params) up to its first request
DownloadImage(msgId, totalLen) ==
  /\ download.pc \in {"idle", "done"}
  /\ download' =
       IF ~msgId \/ totalLen = 0
       THEN Returned([IdleDownload EXCEPT !.kind = "image", !.totalLen = totalLen], "null")
       ELSE [IdleDownload EXCEPT !.pc = "request", !.kind = "image",
                                 !.totalLen = totalLen]
  /\ UNCHANGED <<svcButDownload, gwVars, wxVars, boVars, brVars, hsVars>>

\* downloadFile(message) up to its one-shot request; without attachId and
\* cdnUrl it returns null at once
DownloadFile(hasSource, totalLen) ==
  /\ download.pc \in {"idle", "done"}
  /\ download' =
       IF ~hasSource
       THEN Returned([IdleDownload EXCEPT !.kind = "file", !.totalLen = totalLen], "null")
       ELSE [IdleDownload EXCEPT !.pc = "oneshot", !.kind = "file",
                                 !.totalLen = totalLen]
  /\ UNCHANGED <<svcButDownload, gwVars, wxVars, boVars, brVars, hsVars>>

\* the answer to the one-shot DownloadAttach: a buffer ends the call,
\* anything else (an error included) falls back to the chunk loop
OneShotResponse(hasBuffer) ==
  /\ download.pc = "oneshot"
  /\ download' =
       IF hasBuffer THEN Returned(download, "buffer")
       ELSE IF LoopTest(0, download.totalLen)
       THEN [download EXCEPT !.pc = "request"]
       ELSE Returned(download, "null")
  /\ UNCHANGED <<svcButDownload, gwVars, wxVars, boVars, brVars, hsVars>>

\* the answer to one chunk request, and the loop test that follows it
ChunkResponse(code, hasData, sp, len, blen) ==
  /\ download.pc = "request"
  /\ download' =
       CASE code = "throw" -> Returned(download, "null")
         [] code = "fail" ->
              IF download.kind = "image" THEN Returned(download, "null")
              ELSE AfterLoop(download)
         [] code = "ok" /\ ~hasData -> AfterLoop(download)
         [] OTHER ->
              LET pos == NextStartPos(download.kind, download.startPos, sp, len, blen)
                  d == [download EXCEPT !.chunks = TRUE, !.startPos = pos]
              IN IF LoopTest(pos, download.totalLen) THEN d ELSE AfterLoop(d)
  /\ UNCHANGED <<svcButDownload, gwVars, wxVars, boVars, brVars, hsVars>>

(***************************************************************************)
(* WechatService.sendFileMessage (wechat.mjs)                              *)
(***************************************************************************)
\* the local file: fs.existsSync is false, or readFileSync reads it, or
\* readFileSync throws
FileStates == {"missing", "readable", "unreadable"}
\* what an endpoint does: reports success, reports a result without
\* success, answers with another code, or the request throws
Outcomes == {"success", "nonsuccess", "badcode", "throw"}

\* the dedicated endpoint returned true: nothing else is called
FallsBack_Always(outcome) == TRUE
FallsBack(outcome) == outcome # "success"

\* the call in progress, if any
LastFileSend == fileSends[Len(fileSends)]
FileSendRunning == fileSends # << >> /\ LastFileSend.pc # "done"

\* sendFileMessage(toUser, filePath) up to its first request
SendFileMessage(file) ==
  /\ Len(fileSends) < MaxFileSends
  /\ ~FileSendRunning
  /\ fileSends' = Append(fileSends,
       IF file = "readable"
       THEN [file |-> file, pc |-> "dedicated", calls |-> <<"SendFileMessage">>,
             outcomes |-> << >>, result |-> FALSE]
       ELSE [file |-> file, pc |-> "done", calls |-> << >>,
             outcomes |-> << >>, result |-> FALSE])
  /\ UNCHANGED <<svcButFileSends, gwVars, wxVars, boVars, brVars, hsVars>>

\* the answer of /message/SendFileMessage
DedicatedResponse(outcome) ==
  /\ FileSendRunning /\ LastFileSend.pc = "dedicated"
  /\ fileSends' = [fileSends EXCEPT ![Len(fileSends)] =
       IF FallsBack(outcome)
       THEN [@ EXCEPT !.pc = "app", !.calls = Append(@, "SendAppMessage"),
                      !.outcomes = Append(@, outcome)]
       ELSE [@ EXCEPT !.pc = "done", !.outcomes = Append(@, outcome),
                      !.result = TRUE]]
  /\ UNCHANGED <<svcButFileSends, gwVars, wxVars, boVars, brVars, hsVars>>

\* the answer of /message/SendAppMessage
AppResponse(outcome) ==
  /\ FileSendRunning /\ LastFileSend.pc = "app"
  /\ fileSends' = [fileSends EXCEPT ![Len(fileSends)] =
       [@ EXCEPT !.pc = "done", !.outcomes = Append(@, outcome),
                 !.result = (outcome = "success")]]
  /\ UNCHANGED <<svcButFileSends, gwVars, wxVars, boVars, brVars, hsVars>>

(***************************************************************************)
(* Bridge.extractImagePaths / extractFilePaths on the characters of a      *)
(* reply text (bridge.mjs).  A text is a sequence of chunks: "T" is a      *)
(* path prefix (/tmp/), "J" an image extension with its dot, "P" a file    *)
(* extension with its dot, "x" any other character the pattern admits,     *)
(* WS a white space, which the pattern does not admit.                     *)
(***************************************************************************)
Chars == {"T", "J", "P", "x", WS}
Texts == UNION {[1..n -> Chars] : n \in 0..MaxTextLen}
\* the paths that may exist on disk
DiskPaths == { <<"T", "x", "J">>, <<"T", "x", "P">> }
NoScan == [pc |-> "none", text |-> << >>, disk |-> {}, images |-> << >>,
           files |-> << >>]

\* [^\s`'"\n]+ from position i + 1 on: the last position of the run
RECURSIVE RunEnd(_, _)
RunEnd(text, i) ==
  IF i < Len(text) /\ text[i + 1] # WS THEN RunEnd(text, i + 1) ELSE i

\* the greedy run backtracks to the last extension of the kind in it
LastExt(text, lo, hi, ext) ==
  LET ks == {k \in lo..hi : text[k] = ext}
  IN IF ks = {} THEN 0 ELSE CHOOSE k \in ks : \A j \in ks : j <= k

\* the end of the match of the pattern that starts at i, or 0
MatchAt(text, i, ext) ==
  IF text[i] = "T" THEN LastExt(text, i + 2, RunEnd(text, i), ext) ELSE 0

\* fs.existsSync(cleanPath)
Keeps_All(path, disk) == TRUE
Keeps(path, disk) == path \in disk

\* text.match(pattern) with the g flag, and the existence filter
RECURSIVE Matches(_, _, _, _, _)
Matches(text, i, ext, disk, acc) ==
  IF i > Len(text) THEN acc
  ELSE IF MatchAt(text, i, ext) = 0 THEN Matches(text, i + 1, ext, disk, acc)
  ELSE LET k == MatchAt(text, i, ext)
           path == SubSeq(text, i, k)
       IN Matches(text, k + 1, ext, disk,
                  IF Keeps(path, disk) THEN Append(acc, path) ELSE acc)

\* [...new Set(paths)]
Unique_Keep(paths) == paths
RECURSIVE Unique(_)
Unique(paths) ==
  IF paths = << >> THEN << >>
  ELSE LET rest == Unique(SubSeq(paths, 1, Len(paths) - 1))
           last == paths[Len(paths)]
       IN IF \E i \in 1..Len(rest) : rest[i] = last THEN rest
          ELSE Append(rest, last)

ScanImagePaths(text, disk) == Unique(Matches(text, 1, "J", disk, << >>))
ScanFilePaths(text, disk) == Unique(Matches(text, 1, "P", disk, << >>))

\* both extractors are applied to a reply text
ScanReply ==
  /\ scan.pc = "text"
  /\ scan' = [scan EXCEPT !.pc = "scanned",
                          !.images = ScanImagePaths(scan.text, scan.disk),
                          !.files = ScanFilePaths(scan.text, scan.disk)]
  /\ UNCHANGED <<svcButScan, gwVars, wxVars, boVars, brVars, hsVars>>

(***************************************************************************)
(* Bridge.checkLoginStatus (bridge.mjs) and WechatService.waitForLogin     *)
(* (wechat.mjs).  Time is counted in poll intervals; every request takes   *)
(* between 0 and MaxLatency of them.                                       *)
(***************************************************************************)
\* waitForLogin's interval and timeout
PollInterval == 1
LoginTimeout == MaxLoginTimeout
\* the loginState values a status answer carries (a failed request counts
\* as 0)
LoginStates == {0, 1, 2}
Latencies == 0..MaxLatency

\* status.loginState === 1
LoggedIn_Any(state) == state # 0
LoggedIn(state) == state = 1

IdleLogin == [pc |-> "idle", elapsed |-> 0, log |-> << >>, result |-> "none"]

\* one answer received, in order
Logged(l, ev, v) == [l EXCEPT !.log = Append(@, [ev |-> ev, v |-> v])]
\* checkLoginStatus() has returned or thrown
LoginEnds(l, result) == [l EXCEPT !.pc = "done", !.result = result]
\* waitForLogin(): startTime = Date.now(), then the first loop test
EnterWaitForLogin(l) ==
  IF 0 < LoginTimeout THEN [l EXCEPT !.pc = "poll", !.elapsed = 0]
  ELSE LoginEnds([l EXCEPT !.elapsed = 0], "timeout")

\* checkLoginStatus() up to its getLoginStatus() request
CheckLoginStatus ==
  /\ login.pc = "idle"
  /\ login' = [login EXCEPT !.pc = "status"]
  /\ UNCHANGED <<svcButLogin, gwVars, wxVars, boVars, brVars, hsVars>>

\* the first status: logged in returns, anything else tries wakeUpLogin()
StatusResponse(state) ==
  /\ login.pc = "status"
  /\ login' = IF LoggedIn(state) THEN LoginEnds(Logged(login, "status", state), "ok")
              ELSE [Logged(login, "status", state) EXCEPT !.pc = "wakeup"]
  /\ UNCHANGED <<svcButLogin, gwVars, wxVars, boVars, brVars, hsVars>>

\* wakeUpLogin() returned: true waits for the login, false asks for the QR
\* code
WakeUpResponse(ok) ==
  /\ login.pc = "wakeup"
  /\ login' = IF ok THEN EnterWaitForLogin(Logged(login, "wakeup", 1))
              ELSE [Logged(login, "wakeup", 0) EXCEPT !.pc = "qr"]
  /\ UNCHANGED <<svcButLogin, gwVars, wxVars, boVars, brVars, hsVars>>

\* getLoginQrCode() returned or threw
QrResponse(ok) ==
  /\ login.pc = "qr"
  /\ login' = IF ok THEN EnterWaitForLogin(Logged(login, "qr", 1))
              ELSE LoginEnds(Logged(login, "qr", 0), "error")
  /\ UNCHANGED <<svcButLogin, gwVars, wxVars, boVars, brVars, hsVars>>

\* one getLoginStatus() of the loop, answered after dt
PollResponse(state, dt) ==
  /\ login.pc = "poll"
  /\ LET l == Logged([login EXCEPT !.elapsed = @ + dt], "poll", state)
     IN login' = IF LoggedIn(state) THEN LoginEnds(l, "ok")
                 ELSE [l EXCEPT !.pc = "delay"]
  /\ UNCHANGED <<svcButLogin, gwVars, wxVars, boVars, brVars, hsVars>>

\* delay(interval) is over, dt late, and the loop test follows
DelayElapsed(dt) ==
  /\ login.pc = "delay"
  /\ LET l == [login EXCEPT !.elapsed = @ + PollInterval + dt]
     IN login' = IF l.elapsed < LoginTimeout THEN [l EXCEPT !.pc = "poll"]
                 ELSE LoginEnds(l, "timeout")
  /\ UNCHANGED <<svcButLogin, gwVars, wxVars, boVars, brVars, hsVars>>

(***************************************************************************)
(* WechatService.handleWsMessage (wechat.mjs) and parseMessageContent      *)
(* (utils.mjs).  A content string is a sequence of pieces: "w" is text,    *)
(* "t5" and "t6" are the elements <type>5</type> and <type>6</type>, "tx"  *)
(* is a type element without digits.                                       *)
(***************************************************************************)
XmlPieces == {"w", "t5", "t6", "tx"}
XmlStrings == UNION {[1..n -> XmlPieces] : n \in 0..MaxXmlLen}
\* from_user_name / to_user_name: no such field, a field whose str is
\* empty or missing, a field naming a user
NameFields == {"absent", "empty", "u1"}
\* msg_type: the five known codes, zero and another one
MsgCodes == {0, 1, 3, 34, 47, 49, 50}
\* the frames JSON.parse yields; a frame without msg_type has typed FALSE,
\* one without content (or with content.str empty) has the content << >>
NullFrame ==
  [object |-> FALSE, from |-> "absent", to |-> "absent", content |-> << >>,
   typed |-> FALSE, msgType |-> 0]
PushFrames ==
  {NullFrame} \cup
  {f \in [object : {TRUE}, from : NameFields, to : NameFields,
          content : XmlStrings, typed : BOOLEAN, msgType : MsgCodes] :
     ~f.typed => f.msgType = 0}

\* x.str || ''
StrOf(field) == IF field \in {"absent", "empty"} THEN "" ELSE field

\* parseMessageContent({ content, msgType }).type
ParseMessageContent(typed, msgType) ==
  IF ~typed \/ msgType = 0 THEN "text"
  ELSE CASE msgType = 1 -> "text"
         [] msgType = 3 -> "image"
         [] msgType = 34 -> "voice"
         [] msgType = 47 -> "emoji"
         [] msgType = 49 -> "app"
         [] OTHER -> "unknown"

\* content.match(/<type>(\d+)<\/type>/): the digits of the first type
\* element that has digits, "none" without one
RECURSIVE TypeMatch(_)
TypeMatch(content) ==
  IF content = << >> THEN "none"
  ELSE IF Head(content) = "t5" THEN "5"
  ELSE IF Head(content) = "t6" THEN "6"
  ELSE TypeMatch(Tail(content))

\* typeMatch && typeMatch[1] === WX_APP_SUB_TYPE.FILE
IsFileSubType_Any(content) == TypeMatch(content) # "none"
IsFileSubType(content) == TypeMatch(content) = "6"

\* the msgObj handed to onMessage
MsgObj(f) ==
  [from |-> StrOf(f.from), to |-> StrOf(f.to), rawContent |-> f.content,
   msgType |-> f.msgType,
   type |-> IF f.typed /\ f.msgType = 49 /\ IsFileSubType(f.content)
            THEN "file" ELSE ParseMessageContent(f.typed, f.msgType)]

\* message && message.from_user_name && message.to_user_name, then
\* this.onMessage && content
Delivers(f, handler) ==
  /\ f.object /\ f.from # "absent" /\ f.to # "absent"
  /\ handler /\ f.content # << >>

NoPush ==
  [pc |-> "none", frame |-> NullFrame, handler |-> FALSE, delivered |-> << >>]

\* the 'message' handler of the socket: handleWsMessage(message), whose
\* error on a null frame is caught
HandlePushFrame ==
  /\ push.pc = "frame"
  /\ push' = [push EXCEPT !.pc = "done",
                          !.delivered = IF Delivers(push.frame, push.handler)
                                        THEN Append(@, MsgObj(push.frame))
                                        ELSE @]
  /\ UNCHANGED <<svcButPush, gwVars, wxVars, boVars, brVars, hsVars>>


\* no service procedure is running
InitNoService ==
  /\ download = IdleDownload
  /\ fileSends = << >>
  /\ rawFrames = << >>
  /\ scan = NoScan
  /\ login = IdleLogin
  /\ push = NoPush
  /\ rcWaits = << >>

(***************************************************************************)
(* Bridge Orchestrator: Bridge.handleWechatMessage (bridge.mjs) and the    *)
(* dispatch of inbound frames to it (WechatService.handleWsMessage)        *)
(***************************************************************************)
Users == {"alice", "bob"}
\* message.type: a text, a file/app attachment, an image with msgId and
\* a length in its XML
MsgTypes == {"text", "file", "image"}

\* String.prototype.toUpperCase over the chunks in use
UpperOf(c) == IF c = "a" THEN "A" ELSE IF c = "b" THEN "B" ELSE c
ToUpperCase(s) == [i \in 1..Len(s) |-> UpperOf(s[i])]

\* getPairingCode(): the code in the pairing-code file, generated in
\* upper case
PairingCode == <<"A", "B">>

\* message.content: empty, white space, the pairing code in either letter
\* case and with white space around it, other text
Contents ==
  { << >>, <<" ">>, <<"A", "B">>, <<"a", "b">>, <<"a", "B">>,
    <<" ", "a", "b", " ">>, <<"A", " ", "B">>, <<"A", "B", "h">>, <<"h", "i">> }

\* config.allowedUsers as loaded, no message received yet
InitBridge ==
  /\ allowed = {"alice"}
  /\ msgs = << >>

\* config.mjs isUserAllowed: users.some(u => u.wxid === wxid)
IsUserAllowed_Anyone(al, wxid) == TRUE
IsUserAllowed(al, wxid) == wxid \in al

\* config.mjs addAllowedUser: push and write unless the wxid is found
AddAllowedUser_Replace(al, wxid) == {wxid}
AddAllowedUser(al, wxid) == IF wxid \in al THEN al ELSE al \cup {wxid}

\* content = message.content?.trim() || '';
\* content.toUpperCase() === pairingCode
IsPairingCode_Exact(content) == Trim(content) = PairingCode
IsPairingCode(content) == ToUpperCase(Trim(content)) = PairingCode

\* the branches of handleWechatMessage that await a download first
NeedsDownload(type) == type \in {"file", "image"}

\* the state of the Gateway Session as the handler of an allowed sender's
\* message finds it (history)
GatewayState ==
  [connected |-> connected, authenticated |-> authenticated,
   transportOpen |-> ws # 0 /\ sock[ws] = "open"]
NoGatewayState ==
  [connected |-> FALSE, authenticated |-> FALSE, transportOpen |-> FALSE]

\* one call of wechat.sendTextMessage / sendFileMessage / sendImageMessage
\* and what it returned; none of them throws
WxSend(to, kind, ok) == [to |-> to, kind |-> kind, ok |-> ok]
\* a send that carries or names a path: sendFileMessage / sendImageMessage
\* of the path, or the failure notice naming it
WxSendPath(to, kind, ok, path) ==
  [to |-> to, kind |-> kind, ok |-> ok, path |-> path]

\* the record of a handler invocation: its position, the id of its
\* callAgent call, the branch taken, the sends made, the outcome of the
\* download and the reply text once it is dispatched
Msg(from, type, pc, call, ar, cr, reply, sends, dl) ==
  [from |-> from, type |-> type, pc |-> pc, call |-> call,
   arrivedAt |-> ar, calledAt |-> cr, reply |-> reply,
   sends |-> sends, dl |-> dl, text |-> << >>, sessionKey |-> << >>]

\* the catch block: one apology text, a failure of which is only logged
ApologySends_None(to, ok) == << >>
ApologySends(to, ok) == <<WxSend(to, "apology", ok)>>

\* await this.gateway.callAgent(agentParams): the call is made; if it
\* throws, the catch block sends the apology
\* sessionKey: `agent:main:wechat:${message.from}`
SessionKey(from) == <<"agent:main:wechat:", from>>

InvokeCallAgent(from, type, ar, dl, sok) ==
  [(IF AgentMayProceed(connected, authenticated)
    THEN Msg(from, type, "await", NextN, ar, GatewayState, "none", << >>, dl)
    ELSE Msg(from, type, "done", NextN, ar, GatewayState, "apology",
             ApologySends(from, sok), dl))
   EXCEPT !.sessionKey = SessionKey(from)]

\* handleWechatMessage(message) up to its first await that another
\* handler can interleave with
HandleWechatMessage(from, type, content, sok) ==
  /\ Len(msgs) < MaxMsgs
  /\ IF ~IsUserAllowed(allowed, from)
     THEN /\ allowed' = IF IsPairingCode(content)
                        THEN AddAllowedUser(allowed, from) ELSE allowed
          /\ msgs' = Append(msgs,
                       IF IsPairingCode(content)
                       THEN Msg(from, type, "done", 0, NoGatewayState,
                                NoGatewayState, "paired",
                                <<WxSend(from, "paired", sok)>>, "none")
                       ELSE Msg(from, type, "done", 0, NoGatewayState,
                                NoGatewayState, "ignored", << >>, "none"))
          /\ UNCHANGED gwVars
     ELSE /\ UNCHANGED allowed
          /\ IF NeedsDownload(type)
             THEN /\ msgs' = Append(msgs, Msg(from, type, "download", 0,
                                              GatewayState, NoGatewayState,
                                              "none", << >>, "pending"))
                  /\ UNCHANGED gwVars
             ELSE /\ DoCallAgent(MaxMsgs)
                  /\ msgs' = Append(msgs, InvokeCallAgent(from, type, GatewayState,
                                                          "none", sok))

\* handleWsMessage(message): dispatched to onMessage iff content is set
HandleWsMessage(from, type, content, sok) ==
  /\ WxCanDeliver
  /\ content # << >>
  /\ HandleWechatMessage(from, type, content, sok)
  /\ UNCHANGED <<wxVars, boVars, hsVars, svcVars>>

\* downloadAndSaveFile / downloadAndSaveImage returned a path (dok) or
\* null: the handler goes on to callAgent with the attachment or with the
\* placeholder text alone
DownloadDone(k, dok, sok) ==
  /\ k \in 1..Len(msgs)
  /\ msgs[k].pc = "download"
  /\ DoCallAgent(MaxMsgs)
  /\ msgs' = [msgs EXCEPT ![k] = InvokeCallAgent(@.from, @.type, @.arrivedAt,
                                    IF dok THEN "saved" ELSE "failed", sok)]
  /\ UNCHANGED <<allowed, wxVars, boVars, hsVars, svcVars>>

(***************************************************************************)
(* The reply text as the dispatch sees it: a sequence of words and paths.  *)
(* "f1", "f2" name existing files with a file extension, "fx" a path with  *)
(* a file extension that does not exist, "i1" an existing image, "w" a     *)
(* word; "ph" is the placeholder the paths are replaced by.                *)
(***************************************************************************)
Tokens == {"w", "f1", "f2", "fx", "i1"}
FilePathTokens == {"f1", "f2", "fx"}
ImagePathTokens == {"i1"}
ExistsSync(p) == p # "fx"
Replies == UNION {[1..n -> Tokens] : n \in 1..MaxReplyLen}
\* the replies whose dispatch takes each branch once
RepliesMain == { <<"w">>, <<"f1">>, <<"i1">> }
\* what the media send of the j-th path returns
MediaOutcomes == [1..MaxReplyLen -> BOOLEAN]
AllSent == [j \in 1..MaxReplyLen |-> TRUE]

\* [...new Set(paths)] over the matches of the patterns that exist
RECURSIVE ExtractPaths(_, _, _)
ExtractPaths(text, kinds, acc) ==
  IF text = << >> THEN acc
  ELSE LET p == Head(text)
           found == p \in kinds /\ ExistsSync(p)
                    /\ \A i \in 1..Len(acc) : acc[i] # p
       IN ExtractPaths(Tail(text), kinds, IF found THEN Append(acc, p) ELSE acc)
ExtractFilePaths(text) == ExtractPaths(text, FilePathTokens, << >>)
ExtractImagePaths(text) == ExtractPaths(text, ImagePathTokens, << >>)

\* textOnly.replace(path, placeholder): the first occurrence only
RECURSIVE ReplaceFirst(_, _)
ReplaceFirst(text, p) ==
  IF text = << >> THEN << >>
  ELSE IF Head(text) = p THEN <<"ph">> \o Tail(text)
  ELSE <<Head(text)>> \o ReplaceFirst(Tail(text), p)
RECURSIVE TextOnly(_, _)
TextOnly(text, paths) ==
  IF paths = << >> THEN text
  ELSE TextOnly(ReplaceFirst(text, Head(paths)), Tail(paths))
\* textOnly && textOnly !== placeholder
TextRemains(text, paths) ==
  TextOnly(text, paths) # << >> /\ TextOnly(text, paths) # <<"ph">>

\* the loop of sendReplyWithFiles / sendReplyWithImages: one media send
\* per path, and a failure notice as text when it returned false
RECURSIVE MediaSends(_, _, _, _, _, _)
MediaSends(to, kind, paths, j, mediaOk, textOk) ==
  IF j > Len(paths) THEN << >>
  ELSE <<WxSendPath(to, kind, mediaOk[j], paths[j])>>
       \o (IF mediaOk[j] THEN << >>
           ELSE <<WxSendPath(to, "notice", textOk, paths[j])>>)
       \o MediaSends(to, kind, paths, j + 1, mediaOk, textOk)
SendReplyWith_MediaFirst(to, kind, text, paths, mediaOk, textOk) ==
  MediaSends(to, kind, paths, 1, mediaOk, textOk)
  \o (IF TextRemains(text, paths) THEN <<WxSend(to, "text", textOk)>> ELSE << >>)
SendReplyWith(to, kind, text, paths, mediaOk, textOk) ==
  (IF TextRemains(text, paths) THEN <<WxSend(to, "text", textOk)>> ELSE << >>)
  \o MediaSends(to, kind, paths, 1, mediaOk, textOk)

\* response && response.text: the text of a lifecycle-end result is
\* truthy iff non-empty; a res payload may or may not carry a text
HasReplyText(s, payloadText) ==
  IF s.via = "end" THEN s.val # << >> ELSE payloadText

\* if (filePaths.length > 0) ... else if (imagePaths.length > 0) ... else
Branch_ImagesFirst(text) ==
  IF ExtractImagePaths(text) # << >> THEN "images"
  ELSE IF ExtractFilePaths(text) # << >> THEN "files"
  ELSE "text"
Branch(text) ==
  IF ExtractFilePaths(text) # << >> THEN "files"
  ELSE IF ExtractImagePaths(text) # << >> THEN "images"
  ELSE "text"

\* the handler resumes after await callAgent: reply, nothing, or apology
ReplyFor(s, payloadText, text) ==
  IF s.kind = "reject" THEN "apology"
  ELSE IF HasReplyText(s, payloadText) THEN Branch(text)
  ELSE "none"

SendsFor(to, reply, text, mediaOk, textOk) ==
  CASE reply = "apology" -> ApologySends(to, textOk)
    [] reply = "files" ->
         SendReplyWith(to, "file", text, ExtractFilePaths(text), mediaOk, textOk)
    [] reply = "images" ->
         SendReplyWith(to, "image", text, ExtractImagePaths(text), mediaOk, textOk)
    [] reply = "text" -> <<WxSend(to, "text", textOk)>>
    [] OTHER -> << >>

\* (variant: the sender is read from a field that every invocation of
\* the handler overwrites)
MessageFrom_Latest(k) == msgs[Len(msgs)].from

\* message.from as the handler reads it after its await: message is the
\* parameter of this invocation
MessageFrom(k) == msgs[k].from

ResumeAfterCall(k, payloadText, text, mediaOk, textOk) ==
  /\ k \in 1..Len(msgs)
  /\ msgs[k].pc = "await"
  /\ settles[AgentId(msgs[k].call)] # << >>
  /\ LET reply == ReplyFor(settles[AgentId(msgs[k].call)][1], payloadText, text)
     IN msgs' = [msgs EXCEPT ![k].pc = "done",
                             ![k].reply = reply,
                             ![k].text = IF reply \in {"apology", "none"}
                                         THEN << >> ELSE text,
                             ![k].sends = SendsFor(MessageFrom(k), reply, text,
                                                   mediaOk, textOk)]
  /\ UNCHANGED <<allowed, gwVars, wxVars, boVars, hsVars, svcVars>>

\* addAllowedUser(wxid) called on its own
AddAllowedUserCall(wxid) ==
  /\ allowed' = AddAllowedUser(allowed, wxid)
  /\ UNCHANGED <<msgs, gwVars, wxVars, boVars, hsVars, svcVars>>

(***************************************************************************)
(* The Gateway Session.  Frames are drawn for the ids allocated so far: a  *)
(* frame naming any other id finds no entry and changes nothing.           *)
(***************************************************************************)
ResStatus == {"accepted", "done"}
Phases == {"end", "error"}

Init ==
  InitGateway /\ InitWechat /\ InitNoBackoffCall /\ InitBridge /\ InitNoService

Next ==
  \/ Connect(MaxSockets)
  \/ \E s \in Sockets : ConnectTimeout(s)
  \/ \E s \in Sockets : OnOpen(s)
  \/ \E s \in Sockets : OnClose(s)
  \/ BackoffElapsed
  \/ ReconnectTimer(MaxSockets)
  \/ CallAgent(MaxCalls)
  \/ Request(MaxCalls)
  \/ \E id \in CallIds : CallTimeout(id)
  \/ \E id \in Issued \cup {ConnectId}, ok \in BOOLEAN, st \in ResStatus :
       HandleRes(id, ok, st)
  \/ HandleConnectedEvent
  \/ \E r \in Issued, d \in DataMain : HandleAssistant(r, d, MaxEvents)
  \/ \E r \in Issued, ph \in Phases : HandleLifecycle(r, ph)
  \/ Disconnect

Spec == Init /\ [][Next]_vars

\* a single transport, several calls: connect() is called once and the
\* reconnect timer finds no further socket to create
NextMulti ==
  \/ Connect(1)
  \/ \E s \in Sockets : ConnectTimeout(s)
  \/ \E s \in Sockets : OnOpen(s)
  \/ \E s \in Sockets : OnClose(s)
  \/ BackoffElapsed
  \/ ReconnectTimer(1)
  \/ CallAgent(MaxCallsMulti)
  \/ Request(MaxCallsMulti)
  \/ \E id \in CallIds : CallTimeout(id)
  \/ \E id \in Issued \cup {ConnectId}, ok \in BOOLEAN, st \in ResStatus :
       HandleRes(id, ok, st)
  \/ HandleConnectedEvent
  \/ \E r \in Issued, d \in DataMain : HandleAssistant(r, d, MaxEvents)
  \/ \E r \in Issued, ph \in Phases : HandleLifecycle(r, ph)
  \/ Disconnect

SpecMulti == Init /\ [][NextMulti]_vars

\* the stream of one agent call on one transport
NextStream ==
  \/ Connect(1)
  \/ \E s \in Sockets : OnOpen(s)
  \/ HandleConnectedEvent
  \/ CallAgent(1)
  \/ \E r \in Issued, d \in AssistantData : HandleAssistant(r, d, MaxEventsStream)
  \/ \E r \in Issued, ph \in Phases : HandleLifecycle(r, ph)
  \/ \E id \in CallIds : CallTimeout(id)

SpecStream == Init /\ [][NextStream]_vars

\* connect() is called from outside only when the session is idle
Idle ==
  /\ rcBackoff = 0 /\ rcTimer = 0
  /\ \A s \in Sockets : sock[s] \in {"none", "closed", "failed"}

\* the connection alone: transports, reconnects, disconnect()
NextReconnect ==
  \/ Idle /\ Connect(MaxSocketsRc)
  \/ \E s \in Sockets : ConnectTimeout(s)
  \/ \E s \in Sockets : OnOpen(s)
  \/ \E s \in Sockets : OnClose(s)
  \/ BackoffElapsed
  \/ ReconnectTimer(MaxSocketsRc)
  \/ \E ok \in BOOLEAN : HandleRes(ConnectId, ok, "done")
  \/ Disconnect

SpecReconnect == Init /\ [][NextReconnect]_vars

\* reconnection with the time each scheduled reconnect waits
NextDelay ==
  \/ Idle /\ Connect(MaxSocketsRc)
  \/ \E s \in Sockets : ConnectTimeout(s)
  \/ \E s \in Sockets : OnOpen(s)
  \/ \E s \in Sockets : OnCloseTimed(s)
  \/ BackoffElapsedTimed
  \/ ReconnectTimerTimed(MaxSocketsRc)
  \/ Disconnect

SpecDelay == Init /\ [][NextDelay]_vars

\* a connection attempt ends: the transport opens, or it closes without
\* having opened (refused, reset, or the 10 s handshakeTimeout of the socket)
AttemptEnds(s) ==
  /\ sock[s] \in {"connecting", "aborting"}
  /\ OnOpen(s) \/ OnClose(s)

\* armed timers fire, connection attempts end, backoff delays elapse
FairConnect ==
  /\ \A s \in Sockets : WF_vars(ConnectTimeout(s))
  /\ \A s \in Sockets : WF_vars(AttemptEnds(s))
  /\ WF_vars(BackoffElapsed)
  /\ WF_vars(ReconnectTimer(MaxSocketsRc))

\* the connection alone, under that scheduling
SpecConnectFair == Init /\ [][NextReconnect]_vars /\ FairConnect

\* calls and their timers across transports: two calls, a reconnect
NextTimeout ==
  \/ Idle /\ Connect(MaxSockets)
  \/ \E s \in Sockets : OnOpen(s)
  \/ \E s \in Sockets : OnClose(s)
  \/ BackoffElapsed
  \/ ReconnectTimer(MaxSockets)
  \/ HandleConnectedEvent
  \/ CallAgent(MaxCallsMulti)
  \/ Request(MaxCallsMulti)
  \/ \E id \in CallIds : CallTimeout(id)

SpecTimeout == Init /\ [][NextTimeout]_vars

\* calls over a connection that is replaced, lost, retried and given up:
\* connect() also while connected, every answer a call can get, disconnect()
NextSettle ==
  \/ Connect(MaxSockets)
  \/ \E s \in Sockets : OnOpen(s)
  \/ \E s \in Sockets : OnClose(s)
  \/ BackoffElapsed
  \/ ReconnectTimer(MaxSocketsRc)
  \/ HandleConnectedEvent
  \/ CallAgent(MaxCalls)
  \/ Request(MaxCalls)
  \/ \E id \in CallIds : CallTimeout(id)
  \/ \E id \in Issued, ok \in BOOLEAN, st \in ResStatus : HandleRes(id, ok, st)
  \/ \E r \in Issued, ph \in Phases : HandleLifecycle(r, ph)
  \/ Disconnect

\* armed call timers fire (setTimeout callbacks run once their delay is over)
FairTimers == \A id \in CallIds : WF_vars(CallTimeout(id))

SpecSettle == Init /\ [][NextSettle]_vars /\ FairTimers

\* one transport that delivers frames and raw data that is no frame
NextFrames ==
  \/ Idle /\ Connect(1)
  \/ \E s \in Sockets : OnOpen(s)
  \/ \E s \in Sockets : OnClose(s)
  \/ HandleConnectedEvent
  \/ CallAgent(MaxCallsMulti)
  \/ \E id \in CallIds : CallTimeout(id)
  \/ \E id \in Issued \cup {ConnectId}, ok \in BOOLEAN, st \in ResStatus :
       HandleRes(id, ok, st)
  \/ \E r \in Issued, ph \in Phases : HandleLifecycle(r, ph)
  \/ \E raw \in RawFrames : OnMessageRaw(raw)

SpecFrames == Init /\ [][NextFrames]_vars

\* the handshake of the Gateway Session: transports, challenges, answers
\* to the connect request, and one call
NextHandshake ==
  \/ Idle /\ Connect(MaxSocketsHs)
  \/ \E s \in Sockets : ConnectTimeout(s)
  \/ \E s \in Sockets : OnOpen(s)
  \/ \E s \in Sockets : OnClose(s)
  \/ BackoffElapsed
  \/ ReconnectTimer(MaxSocketsHs)
  \/ \E s \in Sockets : HandleChallenge(s)
  \/ \E s \in Sockets, ok \in BOOLEAN : HandleConnectRes(s, ok)
  \/ HandleConnectedEvent
  \/ CallAgent(MaxCalls)
  \/ Request(MaxCalls)
  \/ \E id \in CallIds : CallTimeout(id)
  \/ \E id \in Issued, ok \in BOOLEAN, st \in ResStatus : HandleRes(id, ok, st)
  \/ \E r \in Issued, ph \in Phases : HandleLifecycle(r, ph)
  \/ Disconnect

SpecHandshake == Init /\ [][NextHandshake]_vars

\* the Messaging-Service Session's WebSocket alone
NextWechat ==
  \/ WxIdle /\ ConnectWebSocket(MaxWxSockets)
  \/ \E s \in WxSockets : WxOnOpen(s)
  \/ \E s \in WxSockets : WxOnClose(s)
  \/ WxBackoffElapsed
  \/ WxReconnectTimer(MaxWxSockets)
  \/ DisconnectWebSocket

SpecWechat == Init /\ [][NextWechat]_vars

\* one call of backoffDelay with arguments drawn from the bounded sets
InitBackoff ==
  /\ InitGateway /\ InitWechat /\ InitBridge /\ InitNoService
  /\ boPc = "idle"
  /\ boArgs \in BoArgs
  /\ boResult = 0

NextBackoff == BackoffDelayCall \/ BackoffDelayReturn

SpecBackoff == InitBackoff /\ [][NextBackoff]_vars

\* media downloads against a server that answers every request in any
\* way; every request is answered or times out
NextDownload ==
  \/ \E m \in BOOLEAN, t \in 0..MaxTotalLen : DownloadImage(m, t)
  \/ \E h \in BOOLEAN, t \in 0..MaxTotalLen : DownloadFile(h, t)
  \/ \E b \in BOOLEAN : OneShotResponse(b)
  \/ \E c \in {"ok", "fail", "throw"}, h \in BOOLEAN,
        sp \in Reported, len \in Reported, blen \in Positions :
       ChunkResponse(c, h, sp, len, blen)

FairDownload ==
  /\ WF_vars(\E b \in BOOLEAN : OneShotResponse(b))
  /\ WF_vars(\E c \in {"ok", "fail", "throw"}, h \in BOOLEAN,
                sp \in Reported, len \in Reported, blen \in Positions :
               ChunkResponse(c, h, sp, len, blen))

SpecDownload == Init /\ [][NextDownload]_vars /\ FairDownload

\* the login check at start against a service that answers every request
\* in any way; every request is answered or fails, every timer fires
NextLogin ==
  \/ CheckLoginStatus
  \/ \E st \in LoginStates : StatusResponse(st)
  \/ \E ok \in BOOLEAN : WakeUpResponse(ok)
  \/ \E ok \in BOOLEAN : QrResponse(ok)
  \/ \E st \in LoginStates, dt \in Latencies : PollResponse(st, dt)
  \/ \E dt \in Latencies : DelayElapsed(dt)

FairLogin ==
  /\ WF_vars(\E st \in LoginStates : StatusResponse(st))
  /\ WF_vars(\E ok \in BOOLEAN : WakeUpResponse(ok))
  /\ WF_vars(\E ok \in BOOLEAN : QrResponse(ok))
  /\ WF_vars(\E st \in LoginStates, dt \in Latencies : PollResponse(st, dt))
  /\ WF_vars(\E dt \in Latencies : DelayElapsed(dt))

SpecLogin == Init /\ [][NextLogin]_vars /\ FairLogin

\* one push frame drawn from the bounded set, with or without a
\* registered 'message' handler
InitPush ==
  /\ InitGateway /\ InitWechat /\ InitNoBackoffCall /\ InitBridge
  /\ download = IdleDownload /\ fileSends = << >> /\ rawFrames = << >>
  /\ scan = NoScan /\ login = IdleLogin /\ rcWaits = << >>
  /\ push \in [pc : {"frame"}, frame : PushFrames, handler : BOOLEAN,
               delivered : {<< >>}]

SpecPush == InitPush /\ [][HandlePushFrame]_vars

\* one scan of a reply text and a disk drawn from the bounded sets
InitScan ==
  /\ InitGateway /\ InitWechat /\ InitNoBackoffCall /\ InitBridge
  /\ download = IdleDownload /\ fileSends = << >> /\ rawFrames = << >>
  /\ login = IdleLogin /\ push = NoPush /\ rcWaits = << >>
  /\ scan \in [pc : {"text"}, text : Texts, disk : SUBSET DiskPaths,
               images : {<< >>}, files : {<< >>}]

SpecScan == InitScan /\ [][ScanReply]_vars

\* file sends, one after the other, with every state of the local file
\* and every answer of the two endpoints
NextSendFile ==
  \/ \E f \in FileStates : SendFileMessage(f)
  \/ \E o \in Outcomes : DedicatedResponse(o)
  \/ \E o \in Outcomes : AppResponse(o)

SpecSendFile == Init /\ [][NextSendFile]_vars

\* the Bridge: both sessions up to two transports of the gateway, inbound
\* messages, their agent calls and the replies
NextBridge ==
  \/ Idle /\ Connect(MaxSockets)
  \/ \E s \in Sockets : OnOpen(s)
  \/ \E s \in Sockets : OnClose(s)
  \/ BackoffElapsed
  \/ ReconnectTimer(MaxSockets)
  \/ HandleConnectedEvent
  \/ \E r \in Issued, d \in DataMain : HandleAssistant(r, d, MaxEvents)
  \/ \E r \in Issued, ph \in Phases : HandleLifecycle(r, ph)
  \/ \E id \in CallIds : CallTimeout(id)
  \/ WxIdle /\ ConnectWebSocket(1)
  \/ \E s \in WxSockets : WxOnOpen(s)
  \/ \E u \in Users, t \in MsgTypes, c \in Contents : HandleWsMessage(u, t, c, TRUE)
  \/ \E k \in 1..MaxMsgs : DownloadDone(k, TRUE, TRUE)
  \/ \E k \in 1..MaxMsgs, b \in BOOLEAN, tx \in RepliesMain :
       ResumeAfterCall(k, b, tx, AllSent, TRUE)

SpecBridge == Init /\ [][NextBridge]_vars

\* the per-message handler of an allowed sender with every outcome of its
\* download, of its agent call and of its sends: one transport of the
\* gateway that opens, answers, fails or is closed, and no reconnection
NextOrchestrator ==
  \/ Idle /\ Connect(1)
  \/ \E s \in Sockets : OnOpen(s)
  \/ \E s \in Sockets : OnClose(s)
  \/ HandleConnectedEvent
  \/ \E r \in Issued : HandleAssistant(r, DataReply, MaxEvents)
  \/ \E r \in Issued, ph \in Phases : HandleLifecycle(r, ph)
  \/ \E id \in Issued, ok \in BOOLEAN : HandleRes(id, ok, "done")
  \/ \E id \in CallIds : CallTimeout(id)
  \/ Disconnect
  \/ WxIdle /\ ConnectWebSocket(1)
  \/ \E s \in WxSockets : WxOnOpen(s)
  \/ \E u \in allowed, t \in MsgTypes, sok \in BOOLEAN :
       Len(msgs) < MaxMsgsReply /\ HandleWsMessage(u, t, <<"h", "i">>, sok)
  \/ \E k \in 1..MaxMsgs, dok \in BOOLEAN, sok \in BOOLEAN : DownloadDone(k, dok, sok)
  \/ \E k \in 1..MaxMsgs, b \in BOOLEAN, tx \in Replies,
        mo \in MediaOutcomes, sok \in BOOLEAN :
       ResumeAfterCall(k, b, tx, mo, sok)

SpecOrchestrator == Init /\ [][NextOrchestrator]_vars

\* the same with the awaits of the handler resuming and the timers firing:
\* a download ends, the timeout timer of a pending call fires unless the
\* call is settled before, and the handler resumes once its call is settled
FairOrchestrator ==
  /\ WF_vars(\E k \in 1..MaxMsgs, dok \in BOOLEAN, sok \in BOOLEAN :
               DownloadDone(k, dok, sok))
  /\ WF_vars(\E id \in CallIds : CallTimeout(id))
  /\ WF_vars(\E k \in 1..MaxMsgs, b \in BOOLEAN, tx \in Replies,
                mo \in MediaOutcomes, sok \in BOOLEAN :
               ResumeAfterCall(k, b, tx, mo, sok))

SpecOrchestratorFair == SpecOrchestrator /\ FairOrchestrator

\* pairing: senders inside and outside the AllowedUser set, one transport
\* of the gateway that becomes ready, agent calls that end
NextPairing ==
  \/ Idle /\ Connect(1)
  \/ \E s \in Sockets : OnOpen(s)
  \/ HandleConnectedEvent
  \/ \E r \in Issued, ph \in Phases : HandleLifecycle(r, ph)
  \/ WxIdle /\ ConnectWebSocket(1)
  \/ \E s \in WxSockets : WxOnOpen(s)
  \/ \E u \in Users, t \in MsgTypes, c \in Contents, sok \in BOOLEAN :
       HandleWsMessage(u, t, c, sok)
  \/ \E k \in 1..MaxMsgs, dok \in BOOLEAN : DownloadDone(k, dok, TRUE)
  \/ \E k \in 1..MaxMsgs, tx \in RepliesMain :
       ResumeAfterCall(k, TRUE, tx, AllSent, TRUE)

SpecPairing == Init /\ [][NextPairing]_vars

\* what a media send returns: every one succeeds, or every one fails
NoneSent == [j \in 1..MaxReplyLen |-> FALSE]

\* handlers of two messages in flight at once, from the same or from
\* different senders (addAllowedUser admits the second sender): a gateway
\* transport that opens, calls that are refused, stream, end or fail,
\* downloads that end and media sends that succeed or fail
NextConcurrent ==
  \/ Idle /\ Connect(1)
  \/ \E s \in Sockets : OnOpen(s)
  \/ HandleConnectedEvent
  \/ \E r \in Issued : HandleAssistant(r, DataReply, MaxEvents)
  \/ \E r \in Issued, ph \in Phases : HandleLifecycle(r, ph)
  \/ WxIdle /\ ConnectWebSocket(1)
  \/ \E s \in WxSockets : WxOnOpen(s)
  \/ \E u \in Users : AddAllowedUserCall(u)
  \/ \E u \in Users, t \in MsgTypes, c \in {<<"h", "i">>, <<"a", "b">>} :
       HandleWsMessage(u, t, c, TRUE)
  \/ \E k \in 1..MaxMsgs : DownloadDone(k, TRUE, TRUE)
  \/ \E k \in 1..MaxMsgs, tx \in RepliesMain, mo \in {AllSent, NoneSent} :
       ResumeAfterCall(k, TRUE, tx, mo, TRUE)

SpecConcurrent == Init /\ [][NextConcurrent]_vars

\* the AllowedUser set under inbound messages and addAllowedUser calls
NextAllow ==
  \/ WxIdle /\ ConnectWebSocket(1)
  \/ \E s \in WxSockets : WxOnOpen(s)
  \/ \E u \in Users, t \in MsgTypes, c \in Contents, sok \in BOOLEAN :
       HandleWsMessage(u, t, c, sok)
  \/ \E k \in 1..MaxMsgs, dok \in BOOLEAN, sok \in BOOLEAN : DownloadDone(k, dok, sok)
  \/ \E u \in Users : AddAllowedUserCall(u)

SpecAllow == Init /\ [][NextAllow]_vars

(***************************************************************************)
(* Properties of the Gateway Session                                       *)
(***************************************************************************)
Settled(id, via) == Len(settles[id]) = 1 /\ settles[id][1].via = via

\* C1: the promise of every request()/callAgent() invocation is settled
\* at most once in every state (never resolved and rejected, never twice),
\* it is unsettled while its entry is pending and settled exactly once as
\* soon as the entry has left the table, whichever of res frame, lifecycle
\* event, timeout and disconnect() came first.
C1_SettledExactlyOnce ==
  \A id \in CallIds :
    /\ Len(settles[id]) <= 1
    /\ id \in DOMAIN pendingRequests => settles[id] = << >>
    /\ id \in Issued /\ id \notin DOMAIN pendingRequests => Len(settles[id]) = 1
    /\ id \notin Issued => settles[id] = << >>

\* a call that timed out while a transport can still deliver frames for it
C1_Witness == \E id \in CallIds : Settled(id, "timeout") /\ CanDeliver

\* a frame (res or agent event) that names this id is handled
FrameFor(id) ==
  \/ \E ok \in BOOLEAN, st \in ResStatus : HandleRes(id, ok, st)
  \/ \E d \in AssistantData, n \in 1..(Len(evlog[id]) + 1) : HandleAssistant(id, d, n)
  \/ \E ph \in Phases : HandleLifecycle(id, ph)

C2_Step ==
  \A id \in CallIds :
    \* an entry leaves the table together with its one settlement and timer
    /\ id \in DOMAIN pendingRequests /\ id \notin DOMAIN pendingRequests'
         => Len(settles'[id]) = Len(settles[id]) + 1 /\ id \notin timers'
    \* a pending caller is settled only by the removal of its entry
    /\ id \in DOMAIN pendingRequests /\ id \in DOMAIN pendingRequests'
         => settles'[id] = settles[id]
    \* once removed: never back, never settled again, no timer left
    /\ id \in Issued /\ id \notin DOMAIN pendingRequests
         => /\ id \notin DOMAIN pendingRequests'
            /\ settles'[id] = settles[id]
            /\ id \notin timers'
    \* a late frame or timer for a removed id changes nothing
    /\ id \in Issued /\ id \notin DOMAIN pendingRequests
         /\ (FrameFor(id) \/ CallTimeout(id))
         => UNCHANGED <<pendingRequests, settles, timers>>

\* C2: an entry of pendingRequests is removed exactly once, by the first of
\* terminal res frame, terminal lifecycle event, timeout or disconnect(),
\* together with its caller's settlement; once removed, every later res
\* frame, stream event or timer for that id changes neither the table nor
\* any caller's outcome.
C2_RemovedOnce == [][C2_Step]_vars

\* a call resolved by lifecycle end while a transport can still deliver
\* frames for it
C2_Witness == \E id \in CallIds : Settled(id, "end") /\ CanDeliver

C3_Step ==
  \A id \in CallIds :
    StartsWithAgent(id) /\ id \in DOMAIN pendingRequests =>
      /\ (\E ok \in BOOLEAN : HandleRes(id, ok, "accepted"))
           => UNCHANGED <<pendingRequests, settles, timers>>
      /\ id \in acked /\ HandleLifecycle(id, "end")
           => /\ settles'[id] = << [kind |-> "resolve", via |-> "end",
                                    val |-> Trim(pendingRequests[id].buffer)] >>
              /\ id \notin DOMAIN pendingRequests'

\* C3: for an agent call, a res frame with its id and status "accepted"
\* neither settles the call nor removes its entry (nor its timer); a later
\* lifecycle "end" for the id resolves it, as its only settlement, with the
\* trimmed text accumulated from the stream.
C3_AcceptedThenEnd == [][C3_Step]_vars

\* an acknowledged call that got stream text and was resolved by end
C3_Witness ==
  \E id \in acked : Settled(id, "end") /\ evlog[id] # << >>
                    /\ settles[id][1].val # << >>

\* C5 as stated: while not authenticated, request() and callAgent() fail
\* at once: the promise is rejected by the precondition, no entry is
\* registered, no timer is armed and no frame is sent.
C5_Step ==
  ~authenticated /\ (\E n \in IdNums : CallAgent(n) \/ Request(n)) =>
    /\ UNCHANGED <<pendingRequests, timers, sent>>
    /\ \E id \in CallIds : settles'[id] # settles[id] /\ settles'[id][1].via = "throw"

\* C5: every request()/callAgent() step taken while not authenticated is
\* such an immediate failure.
C5_FailWhenNotAuthenticated == [][C5_Step]_vars

C6_Step ==
  /\ Disconnect =>
       /\ ~shouldReconnect' /\ ~connected' /\ ~authenticated'
       /\ pendingRequests' = << >>
       /\ timers' \cap DOMAIN pendingRequests = {}
       /\ \A id \in CallIds :
            IF id \in DOMAIN pendingRequests
            THEN settles'[id] = << [kind |-> "reject", via |-> "disconnect",
                                    val |-> "closed"] >>
            ELSE settles'[id] = settles[id]
  /\ \A id \in CallIds :
       settles[id] # << >> /\ settles[id][1].via = "disconnect"
         => settles'[id] = settles[id]

\* C6: disconnect() in one step sets shouldReconnect to false, rejects
\* every entry then pending with the connection-closed error, as its only
\* settlement, empties pendingRequests and leaves connected and
\* authenticated false; a caller rejected by disconnect() is never
\* settled again, in particular not by its timeout.
C6_DisconnectRejectsAll == [][C6_Step]_vars

\* disconnect() has rejected two calls that were pending together
C6_Witness ==
  /\ \E id1, id2 \in CallIds :
       id1 # id2 /\ Settled(id1, "disconnect") /\ Settled(id2, "disconnect")
  /\ ~shouldReconnect /\ pendingRequests = << >>

(***************************************************************************)
(* Stream accumulation (SpecStream)                                        *)
(***************************************************************************)
IsSnapshot(d) == d.text # NoStr

\* index of the last full-text snapshot of a log, 0 if there is none
LastSnapshot(log) ==
  LET idx == {i \in 1..Len(log) : IsSnapshot(log[i])}
  IN IF idx = {} THEN 0 ELSE CHOOSE i \in idx : \A j \in idx : j <= i

RECURSIVE DeltasFrom(_, _)
DeltasFrom(log, i) ==
  IF i > Len(log) THEN << >>
  ELSE (IF log[i].delta # NoStr THEN log[i].delta ELSE << >>) \o DeltasFrom(log, i + 1)

\* the last snapshot followed by the deltas received after it
ExpectedBuffer(log) ==
  LET k == LastSnapshot(log)
  IN (IF k = 0 THEN << >> ELSE log[k].text) \o DeltasFrom(log, k + 1)

\* v is b without its leading and trailing white space
IsTrimOf(v, b) ==
  /\ v = << >> \/ (v[1] # WS /\ v[Len(v)] # WS)
  /\ \E i \in 1..(Len(b) + 1), j \in 0..Len(b) :
       /\ v = SubSeq(b, i, j)
       /\ \A k \in 1..Len(b) : (k < i \/ k > j) => b[k] = WS

Delta(str) == [text |-> NoStr, delta |-> str]
Snapshot(str) == [text |-> str, delta |-> NoStr]
\* deltas "Hel", "lo", then the snapshot " world"
ExampleLog == << Delta(<<"Hel">>), Delta(<<"lo">>), Snapshot(<<WS, "world">>) >>

EndResultIsTrimmedBuffer ==
  \A id \in CallIds :
    Settled(id, "end") => IsTrimOf(settles[id][1].val, ExpectedBuffer(evlog[id]))

\* C4 as stated: lifecycle "end" resolves with the trimmed buffer, the
\* buffer being the last snapshot followed by the later deltas, and the
\* example (deltas "Hel", "lo", snapshot " world") resolves with " world".
C4_AsStated ==
  /\ EndResultIsTrimmedBuffer
  /\ \A id \in CallIds :
       Settled(id, "end") /\ evlog[id] = ExampleLog
         => settles[id][1].val = <<WS, "world">>

\* C4 (amended): lifecycle "end" resolves with the trimmed buffer, the
\* buffer being the last snapshot followed by the deltas received after it
\* (all deltas when there was no snapshot); deltas before a snapshot never
\* appear; the example resolves with "world", the trimmed " world".
C4_EndResolvesTrimmedBuffer ==
  /\ EndResultIsTrimmedBuffer
  /\ \A id \in CallIds :
       Settled(id, "end") /\ evlog[id] = ExampleLog
         => settles[id][1].val = <<"world">>

\* the example stream was received and ended
C4_Witness == \E id \in CallIds : Settled(id, "end") /\ evlog[id] = ExampleLog

(***************************************************************************)
(* Reconnect cap (SpecReconnect)                                           *)
(***************************************************************************)
\* the socket opened last (sockets are created, and here also closed, in
\* the order of their numbers)
LastOpened ==
  LET o == {s \in Sockets : sock[s] \in {"open", "closing", "closed"}}
  IN IF o = {} THEN 0 ELSE CHOOSE s \in o : \A t \in o : t <= s

\* consecutive failed connection attempts, no transport open in between
ConsecFailed ==
  Cardinality({s \in Sockets : s > LastOpened /\ sock[s] = "failed"})

\* those of them that the reconnect timer started
ConsecFailedRc ==
  Cardinality({s \in Sockets : s > LastOpened /\ sock[s] = "failed"
                               /\ origin[s] = "reconnect"})

\* disconnected, no reconnect scheduled, no reconnect attempt in progress
GivenUp ==
  /\ ~connected
  /\ rcBackoff = 0 /\ rcTimer = 0
  /\ \A s \in Sockets :
       origin[s] = "reconnect" => sock[s] \notin {"connecting", "aborting", "open"}

\* C8 as stated: after exactly maxReconnectAttempts consecutive failed
\* connection attempts no further reconnect is scheduled and the session
\* stays disconnected until connect() is called explicitly.
C8_AsStated == ConsecFailed = MaxReconnectAttempts => GivenUp

\* C8 (amended): after exactly maxReconnectAttempts consecutive failed
\* reconnect attempts, i.e. attempts started by the reconnect timer, a
\* failed explicit connect() not counted, no further reconnect is scheduled
\* and the session stays disconnected until connect() is called explicitly.
C8_ReconnectCap == ConsecFailedRc = MaxReconnectAttempts => GivenUp

\* the cap was hit with reconnection still enabled
C8_Witness ==
  /\ ConsecFailedRc = MaxReconnectAttempts
  /\ shouldReconnect /\ reconnectAttempts = MaxReconnectAttempts

(***************************************************************************)
(* Inbound messages and agent request frames (SpecBridge)                  *)
(***************************************************************************)
Handled == 1..Len(msgs)

\* the handler of message k, from an allowed sender, has invoked callAgent
Called(k) == msgs[k].call # 0

\* number of agent request frames written for the call of message k
Frames(k) ==
  Cardinality({i \in 1..Len(sent) : sent[i] = AgentId(msgs[k].call)})

\* the session was connected and authenticated on an open transport
Ready(g) == g.connected /\ g.authenticated /\ g.transportOpen

\* no frame is written twice, every frame belongs to one message
FramesPairedWithMessages ==
  /\ \A i, j \in 1..Len(sent) : i # j => sent[i] # sent[j]
  /\ \A i \in 1..Len(sent) :
       \E k \in Handled : Called(k) /\ sent[i] = AgentId(msgs[k].call)
  /\ \A k1, k2 \in Handled :
       Called(k1) /\ Called(k2) /\ k1 # k2 => msgs[k1].call # msgs[k2].call

\* C7 as stated: for every inbound message from an allowed sender exactly
\* one agent request frame is sent, none twice and none dropped, also when
\* the Gateway Session is disconnected or reconnecting.
C7_AsStated ==
  /\ FramesPairedWithMessages
  /\ \A k \in Handled : Called(k) => Frames(k) = 1

\* C7 (amended): for every inbound message from an allowed sender the
\* handler invokes callAgent once and at most one agent request frame is
\* sent, none twice; exactly one is sent iff the Gateway Session is
\* connected and authenticated on an open transport when callAgent is
\* invoked; otherwise none is sent, the request is dropped, and when the
\* session is not connected or not authenticated the sender gets the
\* apology at once.
C7_OneFrameWhenReady ==
  /\ FramesPairedWithMessages
  /\ \A k \in Handled :
       Called(k) =>
         /\ Frames(k) <= 1
         /\ Frames(k) = 1 <=> Ready(msgs[k].calledAt)
         /\ ~(msgs[k].calledAt.connected /\ msgs[k].calledAt.authenticated)
              => msgs[k].pc = "done" /\ msgs[k].reply = "apology"

\* one message got its frame, another one arrived while the session was
\* disconnected after a transport had closed, got none and was answered
\* with the apology
C7_Witness ==
  \E k1, k2 \in Handled :
    /\ Called(k1) /\ Frames(k1) = 1
    /\ Called(k2) /\ Frames(k2) = 0
    /\ ~msgs[k2].arrivedAt.connected /\ msgs[k2].reply = "apology"
    /\ \E s \in Sockets : sock[s] \in {"closed", "failed"}

(***************************************************************************)
(* Reconnect cap of the Messaging-Service Session (SpecWechat)             *)
(***************************************************************************)
WxLastOpened ==
  LET o == {s \in WxSockets : wxSock[s] \in {"open", "closing", "closed"}}
  IN IF o = {} THEN 0 ELSE CHOOSE s \in o : \A t \in o : t <= s

\* consecutive failed reconnect attempts, no transport open in between
WxConsecFailedRc ==
  Cardinality({s \in WxSockets : s > WxLastOpened /\ wxSock[s] = "failed"
                                 /\ wxOrigin[s] = "reconnect"})

\* C9 as stated: after the maximum number of consecutive failed reconnect
\* attempts (the Gateway Session's cap) scheduleWsReconnect schedules no
\* further connection attempt: none awaits its backoff, no reconnect timer
\* is armed and no further reconnect attempt is in progress.
C9_WsReconnectCap ==
  WxConsecFailedRc >= MaxReconnectAttempts =>
    /\ wxBackoff = 0 /\ wxTimer = 0
    /\ \A s \in WxSockets :
         wxOrigin[s] = "reconnect" => wxSock[s] \notin {"connecting", "aborting"}

C11_Step ==
  ~authenticated /\ authenticated' =>
    \/ \E s \in Sockets : HandleConnectRes(s, TRUE)
    \/ HandleConnectedEvent

\* C11: authenticated changes from false to true only in a step that
\* handles a res frame with id "connect" and ok = true, or a "connected"
\* event; no other frame, operation or timer sets it.
C11_AuthenticatedOnlyByHandshake == [][C11_Step]_vars

\* the session was authenticated by a positive answer on an open transport
C11_Witness ==
  authenticated /\ \E s \in Sockets : answers[s] = "ok" /\ sock[s] = "open"

\* C12 as stated: on every transport no connect request is sent before the
\* first challenge and exactly one is sent per challenge received on it.
C12_AsStated == \A s \in Sockets : connReqs[s] = challenges[s]

C12_Step ==
  /\ \A s \in Sockets : connReqs'[s] <= challenges'[s]
  /\ connReqs' # connReqs => \E s \in Sockets : HandleChallenge(s)
  /\ \A s \in Sockets :
       HandleChallenge(s) =>
         IF sock[s] = "open"
         THEN connReqs' = [connReqs EXCEPT ![s] = @ + 1]
         ELSE connReqs' = connReqs

\* C12 (amended): with one transport alive at a time, a connect request is
\* written only in the step that handles a connect.challenge, to the
\* transport that delivered it: none between open and the first challenge
\* and never more than one per challenge; exactly one per challenge
\* received while the transport is open, none for a challenge received
\* while the transport is closing (after disconnect()).
C12_ConnectOnlyOnChallenge == [][C12_Step]_vars

\* a transport answered both of its challenges
C12_Witness == \E s \in Sockets : challenges[s] = 2 /\ connReqs[s] = 2

C13_Step ==
  /\ \A s \in Sockets :
       HandleConnectRes(s, FALSE) => UNCHANGED <<gwVars, challenges, connReqs>>
  /\ connReqs' # connReqs => \E s \in Sockets : HandleChallenge(s)

\* C13: handling a res "connect" with ok = false changes nothing of the
\* session: connected and authenticated keep their values (authenticated
\* stays false), the transport is not closed, no reconnect is scheduled
\* and no connect request is written; a further connect request is only
\* ever written in reaction to a further challenge.
C13_RefusedStaysConnected == [][C13_Step]_vars

\* a refused handshake on an open transport: connected, not authenticated,
\* nothing scheduled
C13_Witness ==
  \E s \in Sockets :
    /\ answers[s] = "refused" /\ sock[s] = "open" /\ ws = s
    /\ connected /\ ~authenticated
    /\ rcBackoff = 0 /\ rcTimer = 0

(***************************************************************************)
(* Timers of the calls (SpecTimeout)                                       *)
(***************************************************************************)
TimeoutRecord == [kind |-> "reject", via |-> "timeout", val |-> "timeout"]

C14_Step ==
  /\ \A id \in DOMAIN pendingRequests' : id \in timers'
  /\ \A id \in DOMAIN pendingRequests :
       CallTimeout(id) =>
         /\ id \notin DOMAIN pendingRequests'
         /\ settles'[id] = << TimeoutRecord >>
         /\ \A other \in CallIds \ {id} :
              /\ other \in DOMAIN pendingRequests <=> other \in DOMAIN pendingRequests'
              /\ other \in DOMAIN pendingRequests
                   => pendingRequests'[other] = pendingRequests[other]
              /\ other \in timers <=> other \in timers'
              /\ settles'[other] = settles[other]

\* C14: every pending entry has its own armed timer; when the timer of a
\* pending entry fires, that entry is removed and its caller is rejected
\* with the timeout error, in every connection state (connected,
\* disconnected after a close, reconnected on a new transport), and every
\* other entry, its timer and its caller are left as they were.
C14_TimeoutRemovesOnlyItsEntry == [][C14_Step]_vars

\* one call has timed out and another is still pending with its timer
\* while the session is connected again on a second transport
C14_Witness ==
  \E id, other \in CallIds :
    /\ Settled(id, "timeout")
    /\ other \in DOMAIN pendingRequests /\ other \in timers
    /\ sock[1] = "closed" /\ ws = 2 /\ sock[2] = "open" /\ connected

(***************************************************************************)
(* Settlement of connect() (SpecConnectFair)                               *)
(***************************************************************************)
\* C15 as stated: the promise of every connect() call is eventually
\* settled: resolved when the transport opens, rejected when it does not
\* open, also when the transport reports an error or closes before
\* opening; a caller awaiting connect() never waits forever.
C15_ConnectSettles ==
  \A s \in Sockets : (connPromise[s] = "pending") ~> (connPromise[s] # "pending")

(***************************************************************************)
(* Pairing and the AllowedUser set (SpecPairing, SpecAllow)                *)
(***************************************************************************)
\* the record of the handler invocation a step has added
Newest == msgs'[Len(msgs')]

\* a step that handles a message of a sender outside the set whose trimmed
\* content is the pairing code in any letter case
C16_Step ==
  \A u \in Users, t \in MsgTypes, c \in Contents, sok \in BOOLEAN :
    u \notin allowed /\ ToUpperCase(Trim(c)) = PairingCode
      /\ HandleWsMessage(u, t, c, sok)
    => /\ allowed' = allowed \cup {u}
       /\ Len(msgs') = Len(msgs) + 1
       /\ Newest.from = u /\ Newest.pc = "done" /\ Newest.call = 0
       /\ Newest.sends = <<WxSend(u, "paired", sok)>>
       /\ UNCHANGED <<issued, sent, pendingRequests>>

\* a later text message of a paired sender reaches callAgent, and its
\* frame is written iff the Gateway Session is ready at that moment
C16_NextForwarded ==
  \A k1, k2 \in Handled :
    k1 < k2 /\ msgs[k1].reply = "paired" /\ msgs[k2].from = msgs[k1].from
      /\ msgs[k2].type = "text"
    => /\ Called(k2)
       /\ Frames(k2) = 1 <=> Ready(msgs[k2].calledAt)

\* C16: when a sender outside the AllowedUser set sends a message whose
\* trimmed content equals the pairing code case-insensitively, the sender
\* is added to the set, one confirmation is sent to that sender and no
\* gateway call is made for that message; the same sender's next text
\* message is handed to callAgent (and written to the gateway when the
\* session is ready).
C16_PairingFlow == [][C16_Step]_vars /\ []C16_NextForwarded

\* bob paired and his next text message was written to the gateway
C16_Witness ==
  \E k1, k2 \in Handled :
    /\ k1 < k2 /\ msgs[k1].from = "bob" /\ msgs[k2].from = "bob"
    /\ msgs[k1].reply = "paired" /\ Len(msgs[k1].sends) = 1
    /\ ~Called(k1)
    /\ msgs[k2].type = "text" /\ Called(k2) /\ Frames(k2) = 1
    /\ "bob" \in allowed

\* C17 by steps: a step that handles a message of a sender outside the set
\* whose content is not the pairing code, and a step in which callAgent is
\* invoked
C17_Step ==
  /\ \A u \in Users, t \in MsgTypes, c \in Contents, sok \in BOOLEAN :
       u \notin allowed /\ ToUpperCase(Trim(c)) # PairingCode
         /\ HandleWsMessage(u, t, c, sok)
       => /\ allowed' = allowed
          /\ Len(msgs') = Len(msgs) + 1
          /\ Newest.from = u /\ Newest.pc = "done" /\ Newest.call = 0
          /\ Newest.sends = << >> /\ Newest.dl = "none"
          /\ UNCHANGED <<issued, sent, pendingRequests>>
  /\ issued' # issued
       => \E k \in 1..Len(msgs') :
            /\ msgs'[k].call = Len(issued')
            /\ msgs'[k].from \in allowed

\* C17: for a sender outside the AllowedUser set whose message is not the
\* pairing code the handler sends nothing, makes no gateway call, downloads
\* no media and leaves the set unchanged; callAgent is only ever invoked
\* for a sender that is in the set when the call is made.
C17_UnknownSenderIgnored == [][C17_Step]_vars

\* bob's message was ignored while alice's message was written to the gateway
C17_Witness ==
  \E k1, k2 \in Handled :
    /\ msgs[k1].from = "bob" /\ msgs[k1].reply = "ignored"
    /\ msgs[k1].sends = << >> /\ ~Called(k1) /\ "bob" \notin allowed
    /\ msgs[k2].from = "alice" /\ Called(k2) /\ Frames(k2) = 1

\* no step removes a member; addAllowedUser adds at most its argument
C18_Step ==
  /\ allowed \subseteq allowed'
  /\ \A u \in Users :
       AddAllowedUserCall(u) =>
         allowed' = IF u \in allowed THEN allowed ELSE allowed \cup {u}

Finished(k) == msgs[k].pc = "done"

\* number of sends of one kind made by the handler of message k
SendsOfKind(k, kind) ==
  Cardinality({i \in 1..Len(msgs[k].sends) : msgs[k].sends[i].kind = kind})

\* the agent call of message k threw or was rejected
CallFailed(k) ==
  /\ Called(k)
  /\ settles[AgentId(msgs[k].call)] # << >>
  /\ settles[AgentId(msgs[k].call)][1].kind = "reject"

\* the download of message k returned null
DownloadFailed(k) == msgs[k].dl = "failed"

\* a send of the reply dispatch of message k returned false
DispatchFailed(k) ==
  \E i \in 1..Len(msgs[k].sends) :
    msgs[k].sends[i].kind # "apology" /\ ~msgs[k].sends[i].ok

\* C19 as stated: for a message of an allowed sender, any failure of the
\* media download, of the agent call or of the reply dispatch results in
\* one apology text sent to the sender.
C19_AsStated ==
  \A k \in Handled :
    Finished(k) /\ (DownloadFailed(k) \/ CallFailed(k) \/ DispatchFailed(k))
      => SendsOfKind(k, "apology") = 1

\* C19 (amended): for a message of an allowed sender, a failure of the
\* agent call (not connected, not authenticated, timeout, remote error,
\* disconnect) is caught in the handler and results in exactly one apology
\* text to that sender and no other send, whether or not the apology send
\* succeeds; a failed download does not end the handler, the call is made
\* without the attachment; a send of the reply dispatch that fails is
\* followed by a failure notice (media) or by nothing (text), never by the
\* apology; the handler always returns.
C19_ApologyOnCallFailure ==
  \A k \in Handled :
    /\ msgs[k].pc \in {"download", "await", "done"}
    /\ ~Finished(k) => msgs[k].sends = << >>
    /\ DownloadFailed(k) => Called(k)
    /\ Finished(k) /\ Called(k) =>
         /\ SendsOfKind(k, "apology") = (IF CallFailed(k) THEN 1 ELSE 0)
         /\ CallFailed(k) => Len(msgs[k].sends) = 1
         /\ \A i \in 1..Len(msgs[k].sends) : msgs[k].sends[i].to = msgs[k].from
         /\ \A i \in 1..Len(msgs[k].sends) :
              msgs[k].sends[i].kind \in {"file", "image"} /\ ~msgs[k].sends[i].ok
                => /\ i < Len(msgs[k].sends)
                   /\ msgs[k].sends[i + 1].kind = "notice"

\* the call of a message whose download had failed timed out, and the
\* apology send failed as well: the handler returned with that one send
C19_Witness ==
  \E k \in Handled :
    /\ Finished(k) /\ DownloadFailed(k) /\ CallFailed(k)
    /\ settles[AgentId(msgs[k].call)][1].via = "timeout"
    /\ msgs[k].sends = <<WxSend(msgs[k].from, "apology", FALSE)>>

\* the existing file paths and image paths named in the reply text that
\* the handler of message k dispatched
NamedIn(k, paths) == {msgs[k].text[i] : i \in 1..Len(msgs[k].text)} \cap paths

\* C20: when a reply yields extracted file paths it is dispatched through
\* the file-sending path only, one file send per path and no image send
\* even if image paths were extracted too; the image-sending path is taken
\* only when no file path and at least one image path was extracted.
C20_FilesBeforeImages ==
  \A k \in Handled :
    Finished(k) /\ msgs[k].reply \in {"files", "images", "text"} =>
      LET files == NamedIn(k, {"f1", "f2"})
          images == NamedIn(k, {"i1"})
      IN /\ files # {} =>
              /\ msgs[k].reply = "files"
              /\ SendsOfKind(k, "image") = 0
              /\ SendsOfKind(k, "file") = Cardinality(files)
         /\ files = {} /\ images # {} =>
              /\ msgs[k].reply = "images"
              /\ SendsOfKind(k, "file") = 0
              /\ SendsOfKind(k, "image") = Cardinality(images)
         /\ SendsOfKind(k, "image") > 0 <=> files = {} /\ images # {}
         /\ files = {} /\ images = {} =>
              /\ msgs[k].reply = "text"
              /\ msgs[k].sends = <<WxSend(msgs[k].from, "text", msgs[k].sends[1].ok)>>

\* a reply that named an image and then a file was dispatched as its text
\* and one file send
C20_Witness ==
  \E k \in Handled :
    /\ Finished(k) /\ msgs[k].text = <<"i1", "f1">> /\ msgs[k].reply = "files"
    /\ msgs[k].sends = <<WxSend(msgs[k].from, "text", TRUE),
                         WxSendPath(msgs[k].from, "file", TRUE, "f1")>>

(***************************************************************************)
(* Media download loops (SpecDownload)                                     *)
(***************************************************************************)
\* C21: both chunked download loops terminate for every sequence of server
\* responses: a call that is waiting for a chunk eventually returns, also
\* when the server returns chunks that do not advance the offset.
C21_DownloadTerminates ==
  (download.pc = "request") ~> (download.pc = "done")

(***************************************************************************)
(* sendFileMessage and its fallback endpoint (SpecSendFile)                *)
(***************************************************************************)
FileSendCalls == 1..Len(fileSends)
Returned1(i) == fileSends[i].pc = "done"
Succeeded(i, n) ==
  Len(fileSends[i].outcomes) >= n /\ fileSends[i].outcomes[n] = "success"
\* the endpoints are called in order, the generic one only after the
\* dedicated one threw or reported non-success
EndpointOrder(i) ==
  /\ fileSends[i].calls \in {<< >>, <<"SendFileMessage">>,
                             <<"SendFileMessage", "SendAppMessage">>}
  /\ Len(fileSends[i].calls) = 2 => ~Succeeded(i, 1)
  /\ Returned1(i) => (fileSends[i].result <=> Succeeded(i, 1) \/ Succeeded(i, 2))
BothFailed(i) ==
  /\ Len(fileSends[i].outcomes) = 2
  /\ ~Succeeded(i, 1) /\ ~Succeeded(i, 2)

\* C22 as stated: the dedicated endpoint first, the generic one only if
\* the dedicated one threw or reported non-success; true iff one of the
\* two reported success, and false only when both failed or the local
\* file does not exist, in which case no endpoint is called.
C22_AsStated ==
  \A i \in FileSendCalls :
    /\ EndpointOrder(i)
    /\ Returned1(i) /\ ~fileSends[i].result =>
         \/ BothFailed(i)
         \/ fileSends[i].file = "missing" /\ fileSends[i].calls = << >>

\* C22 (amended): as stated, and false is also returned, without any
\* endpoint being called, when the local file exists but cannot be read.
C22_FallbackOrder ==
  \A i \in FileSendCalls :
    /\ EndpointOrder(i)
    /\ fileSends[i].file # "readable" =>
         Returned1(i) /\ ~fileSends[i].result /\ fileSends[i].calls = << >>
    /\ Returned1(i) /\ ~fileSends[i].result /\ fileSends[i].file = "readable"
         => BothFailed(i)

\* one send succeeded at the dedicated endpoint alone, another one at the
\* generic endpoint after the dedicated one had thrown
C22_Witness ==
  \E i, j \in FileSendCalls :
    /\ fileSends[i].result /\ fileSends[i].calls = <<"SendFileMessage">>
    /\ fileSends[j].result /\ fileSends[j].outcomes = <<"throw", "success">>
    /\ fileSends[j].calls = <<"SendFileMessage", "SendAppMessage">>

(***************************************************************************)
(* Malformed inbound gateway frames (SpecFrames)                           *)
(***************************************************************************)
\* a step that handles a raw frame that is empty, not JSON or not an object
C23_Step ==
  \A raw \in RawFrames :
    Disposition(raw) \in {"empty", "parseError", "invalidFormat"}
      /\ OnMessageRaw(raw)
    => /\ UNCHANGED <<connected, authenticated, reconnectAttempts,
                      pendingRequests, timers, settles, sent, ws, sock>>
       /\ CanDeliver'

\* C23: a malformed inbound gateway frame (empty, not valid JSON, not an
\* object) is dropped: handling it leaves connected, authenticated,
\* reconnectAttempts and pendingRequests unchanged, settles no caller,
\* sends nothing, and the transport keeps delivering later frames.
C23_MalformedDropped == [][C23_Step]_vars

\* after broken JSON was dropped, a call made later was resolved by a res
\* frame of the same transport
C23_Witness ==
  /\ nsock = 1
  /\ \E i \in 1..Len(rawFrames), n \in 1..Len(issued) :
       /\ rawFrames[i].disposition = "parseError"
       /\ rawFrames[i].at < n
       /\ settles[issued[n]] # << >>
       /\ settles[issued[n]][1].kind = "resolve"
       /\ settles[issued[n]][1].via = "res"

(***************************************************************************)
(* Path extraction from reply texts (SpecScan)                             *)
(***************************************************************************)
Scanned == scan.pc = "scanned"
ImagePath == <<"T", "x", "J">>
FilePath == <<"T", "x", "P">>
Elems(paths) == {paths[i] : i \in 1..Len(paths)}
\* the path stands in the text between white space or the ends of the text
Delimited(text, path) ==
  \E i \in 1..Len(text) :
    /\ i + Len(path) - 1 <= Len(text)
    /\ SubSeq(text, i, i + Len(path) - 1) = path
    /\ i = 1 \/ text[i - 1] = WS
    /\ i + Len(path) - 1 = Len(text) \/ text[i + Len(path)] = WS
\* the path occurs in the text
Contains(text, path) ==
  \E i \in 1..Len(text) :
    /\ i + Len(path) - 1 <= Len(text)
    /\ SubSeq(text, i, i + Len(path) - 1) = path

\* C24: for every reply text and every state of the disk both extractors
\* return only paths that exist at scan time; with only the image path
\* existing, a text that names it yields exactly that path from the image
\* extraction and nothing from the file extraction.
C24_OnlyExistingPaths ==
  Scanned =>
    /\ Elems(scan.images) \subseteq scan.disk
    /\ Elems(scan.files) \subseteq scan.disk
    /\ scan.disk = {ImagePath} /\ Delimited(scan.text, ImagePath)
         => scan.images = <<ImagePath>> /\ scan.files = << >>

\* a text named a file path that does not exist and the image path that
\* does: only the image path was returned
C24_Witness ==
  /\ Scanned /\ scan.disk = {ImagePath}
  /\ scan.text = <<"T", "x", "P", WS, "T", "x", "J">>
  /\ scan.images = <<ImagePath>> /\ scan.files = << >>

\* the results are disjoint, without duplicates, and of the right kind
DisjointAndUnique ==
  /\ Elems(scan.images) \cap Elems(scan.files) = {}
  /\ \A i, j \in 1..Len(scan.images) : i # j => scan.images[i] # scan.images[j]
  /\ \A i, j \in 1..Len(scan.files) : i # j => scan.files[i] # scan.files[j]
  /\ \A path \in Elems(scan.images) : path[Len(path)] = "J"
  /\ \A path \in Elems(scan.files) : path[Len(path)] = "P"

\* C25 as stated: for every reply text the results are disjoint and free
\* of duplicates, and a text containing one existing path of each kind
\* yields exactly that one path from each extractor.
C25_AsStated ==
  Scanned =>
    /\ DisjointAndUnique
    /\ scan.disk = {ImagePath, FilePath}
         /\ Contains(scan.text, ImagePath) /\ Contains(scan.text, FilePath)
         => scan.images = <<ImagePath>> /\ scan.files = <<FilePath>>

\* C25 (amended): for every reply text the results are disjoint and free
\* of duplicates, a path of one kind is never returned by the extractor of
\* the other kind, and a text in which one existing path of each kind
\* stands between white space yields exactly that one path from each
\* extractor, however often it occurs.
C25_DisjointNoDuplicates ==
  Scanned =>
    /\ DisjointAndUnique
    /\ scan.disk = {ImagePath, FilePath}
         /\ Delimited(scan.text, ImagePath) /\ Delimited(scan.text, FilePath)
         => scan.images = <<ImagePath>> /\ scan.files = <<FilePath>>
    /\ FilePath \in scan.disk /\ Delimited(scan.text, FilePath)
         => scan.files = <<FilePath>>

\* a text naming the file path twice yielded it once
C25_Witness ==
  /\ Scanned /\ scan.disk = {ImagePath, FilePath}
  /\ scan.text = <<"T", "x", "P", WS, "T", "x", "P">>
  /\ scan.files = <<FilePath>> /\ scan.images = << >>

(***************************************************************************)
(* reconnectAttempts of both sessions (SpecReconnect, SpecWechat)          *)
(***************************************************************************)
\* the counter of the Gateway Session: reset by an open, one more for each
\* reconnect that is scheduled, within the ceiling
GatewayAttemptsStep ==
  /\ reconnectAttempts' # reconnectAttempts =>
       \/ reconnectAttempts' = 0 /\ \E s \in Sockets : OnOpen(s)
       \/ reconnectAttempts' = reconnectAttempts + 1 /\ rcBackoff' = rcBackoff + 1
  /\ rcBackoff' > rcBackoff => reconnectAttempts' = reconnectAttempts + 1
GatewayAttemptsBounded ==
  0 <= reconnectAttempts /\ reconnectAttempts <= MaxReconnectAttempts

\* the same for the counter of the Messaging-Service Session
WechatAttemptsStep ==
  /\ wxAttempts' # wxAttempts =>
       \/ wxAttempts' = 0 /\ \E s \in WxSockets : WxOnOpen(s)
       \/ wxAttempts' = wxAttempts + 1 /\ wxBackoff' = wxBackoff + 1
  /\ wxBackoff' > wxBackoff => wxAttempts' = wxAttempts + 1
WechatAttemptsBounded ==
  0 <= wxAttempts /\ wxAttempts <= MaxReconnectAttempts

\* C26: in each session reconnectAttempts is reset to 0 only by a
\* successful transport open, is incremented by exactly 1 on each reconnect
\* scheduling decision, and satisfies 0 <= reconnectAttempts <= the
\* maximum-attempts ceiling in every reachable state.
C26_AttemptsWithinCeiling ==
  /\ [][GatewayAttemptsStep /\ WechatAttemptsStep]_vars
  /\ [](GatewayAttemptsBounded /\ WechatAttemptsBounded)

(***************************************************************************)
(* C27: the login procedure at start                                       *)
(***************************************************************************)
LoginLog == login.log
LastLogin == LoginLog[Len(LoginLog)]
\* every request is made in its place: wake-up directly after a first
\* status that is not logged-in, the QR code directly after a failed
\* wake-up, a poll after a successful wake-up or QR request or after a
\* poll that was not logged-in
LoginOrdered ==
  \A i \in 1..Len(LoginLog) :
    LET e == LoginLog[i] IN
    CASE e.ev = "status" -> i = 1
      [] e.ev = "wakeup" -> i = 2 /\ LoginLog[1].ev = "status" /\ LoginLog[1].v # 1
      [] e.ev = "qr" -> LoginLog[i - 1] = [ev |-> "wakeup", v |-> 0]
      [] OTHER -> \/ LoginLog[i - 1] \in {[ev |-> "wakeup", v |-> 1], [ev |-> "qr", v |-> 1]}
                  \/ LoginLog[i - 1].ev = "poll" /\ LoginLog[i - 1].v # 1
\* the three ways the procedure ends
LoginOutcome ==
  /\ login.result = "ok" => LastLogin.ev \in {"status", "poll"} /\ LastLogin.v = 1
  /\ login.result = "timeout" =>
       login.elapsed >= LoginTimeout /\ LastLogin.v # 1
  /\ login.result = "error" => LastLogin = [ev |-> "qr", v |-> 0]
  /\ login.pc = "done" <=> login.result # "none"
  /\ login.pc \in {"poll", "delay"} => login.elapsed < LoginTimeout + MaxLatency
  /\ login.pc = "wakeup" => Len(LoginLog) = 1
\* C27: when the account is not logged in at start, wake-up login is tried
\* first, the QR code is requested only after a failed wake-up, the status
\* is polled only after that until it says logged-in or the timeout has
\* elapsed; success is reported only on a logged-in status, a timeout ends
\* the start with an error, and the procedure always ends
C27_LoginProcedure ==
  /\ [](LoginOrdered /\ LoginOutcome)
  /\ (login.pc # "idle") ~> (login.pc = "done")
C27_Witness ==
  /\ login.result = "timeout"
  /\ \E i \in 1..Len(LoginLog) : LoginLog[i].ev = "qr"
  /\ \E i \in 1..Len(LoginLog) : LoginLog[i] = [ev |-> "poll", v |-> 2]

(***************************************************************************)
(* C28: the order of the sends of a reply with media (SpecOrchestrator)    *)
(***************************************************************************)
MediaKinds == {"file", "image"}
\* the positions of the media sends among the sends of message k
MediaAt(k) == {i \in 1..Len(msgs[k].sends) : msgs[k].sends[i].kind \in MediaKinds}
\* the paths extracted from the reply of message k, in extraction order
PathsOf(k) ==
  IF msgs[k].reply = "files" THEN ExtractFilePaths(msgs[k].text)
  ELSE ExtractImagePaths(msgs[k].text)
\* the j-th media send of message k
NthMedia(k, j) ==
  CHOOSE i \in MediaAt(k) : Cardinality({h \in MediaAt(k) : h < i}) = j - 1
\* C28: a reply with extracted media paths is sent as its remaining text
\* first, iff text remains beyond the placeholder, and then one media send
\* per path in extraction order; no media send precedes the text send, and
\* a media send that failed, and no other send, is directly followed by
\* one failure notice to the same sender naming the same path.
C28_TextThenMedia ==
  \A k \in Handled :
    Finished(k) /\ msgs[k].reply \in {"files", "images"} =>
      LET sends == msgs[k].sends
          paths == PathsOf(k)
          n == Len(sends)
      IN /\ paths # << >>
         /\ \A i \in 1..n : sends[i].to = msgs[k].from
         /\ SendsOfKind(k, "text") =
              (IF TextRemains(msgs[k].text, paths) THEN 1 ELSE 0)
         /\ \A i \in 1..n : sends[i].kind = "text" => i = 1
         /\ \A i \in 1..n : sends[i].kind \in MediaKinds \cup {"text", "notice"}
         /\ Cardinality(MediaAt(k)) = Len(paths)
         /\ \A j \in 1..Len(paths) :
              /\ sends[NthMedia(k, j)].path = paths[j]
              /\ sends[NthMedia(k, j)].kind =
                   (IF msgs[k].reply = "files" THEN "file" ELSE "image")
         /\ \A i \in MediaAt(k) :
              ~sends[i].ok <=>
                 /\ i < n
                 /\ sends[i + 1].kind = "notice"
                 /\ sends[i + 1].path = sends[i].path
         /\ \A i \in 1..n : sends[i].kind = "notice" =>
              i > 1 /\ (i - 1) \in MediaAt(k)
\* a reply naming two files: the remaining text, the first file, which
\* fails and is followed by its notice, and the second file
C28_Witness ==
  \E k \in Handled :
    /\ Finished(k) /\ msgs[k].text = <<"f2", "f1">>
    /\ Len(msgs[k].sends) = 4
    /\ msgs[k].sends[1].kind = "text"
    /\ msgs[k].sends[2] = WxSendPath(msgs[k].from, "file", FALSE, "f2")
    /\ msgs[k].sends[3].kind = "notice"
    /\ msgs[k].sends[4] = WxSendPath(msgs[k].from, "file", TRUE, "f1")

(***************************************************************************)
(* C29: push frames (SpecPush)                                             *)
(***************************************************************************)
PushDone == push.pc = "done"
PushFrame == push.frame
\* the frame carries both name fields and a non-empty content
Deliverable ==
  /\ PushFrame.object
  /\ PushFrame.from # "absent" /\ PushFrame.to # "absent"
  /\ PushFrame.content # << >>
\* delivered once, with the type of a frame of this code that is no file
DeliveredAs(type) ==
  /\ Len(push.delivered) = 1
  /\ push.delivered[1].type = type
  /\ push.delivered[1].rawContent = PushFrame.content
\* the type a code stands for, every other code standing for other
TypeOfCode(code, other) ==
  CASE code = 1 -> "text" [] code = 3 -> "image" [] code = 34 -> "voice"
    [] code = 47 -> "emoji" [] code = 49 -> "app" [] OTHER -> other
FileFrame ==
  PushFrame.typed /\ PushFrame.msgType = 49 /\ TypeMatch(PushFrame.content) = "6"
\* C29 as stated: every code other than 1, 3, 34, 47, 49 is delivered as
\* unknown
C29_AsStated ==
  PushDone /\ push.handler /\ Deliverable /\ PushFrame.typed =>
    DeliveredAs(IF FileFrame THEN "file"
                ELSE TypeOfCode(PushFrame.msgType, "unknown"))
\* C29: a frame that carries a sender field, a recipient field and a
\* non-empty content is delivered to the registered handler exactly once,
\* and a frame lacking one of them is not delivered; the delivered type is
\* text, image, voice, emoji, app for the codes 1, 3, 34, 47, 49, unknown
\* for every other non-zero code and text for a frame whose code is zero or
\* missing, except that a frame of code 49 is delivered as file iff the
\* first numeric type element of its content is 6.
C29_PushFrameMapping ==
  PushDone =>
    /\ push.handler /\ Deliverable =>
         DeliveredAs(IF FileFrame THEN "file"
                     ELSE IF ~PushFrame.typed \/ PushFrame.msgType = 0 THEN "text"
                     ELSE TypeOfCode(PushFrame.msgType, "unknown"))
    /\ ~(push.handler /\ Deliverable) => push.delivered = << >>
    /\ \A i \in 1..Len(push.delivered) :
         push.delivered[i].type = "file" <=> FileFrame
\* an app frame whose first numeric type element is 6 was delivered as a
\* file
C29_Witness ==
  /\ PushDone /\ PushFrame.msgType = 49 /\ PushFrame.content = <<"tx", "t6">>
  /\ Len(push.delivered) = 1 /\ push.delivered[1].type = "file"

(***************************************************************************)
(* C30: the wait before a reconnect attempt of the gateway (SpecDelay)     *)
(***************************************************************************)
\* min(2000 * 2^k, 30000)
OneBackoffDelay(k) ==
  IF GatewayBaseDelay * (2 ^ k) < GatewayMaxDelay
  THEN GatewayBaseDelay * (2 ^ k) ELSE GatewayMaxDelay
\* C30: the k-th consecutive reconnect attempt of the gateway is started
\* after the backoff delay min(2000 * 2^k, 30000) ms has been waited once:
\* the time between the close and the connect attempt is one backoff
\* delay.
C30_OneBackoffDelay ==
  \A i \in WaitsAt("connect") :
    rcWaits[i].waited = OneBackoffDelay(rcWaits[i].attempt)

(***************************************************************************)
(* C31: disconnectWebSocket() and a scheduled reconnect (SpecWechat)       *)
(***************************************************************************)
\* disconnectWebSocket() is the only operation that clears shouldReconnect
WxDisconnected == ~wxShouldReconnect
\* the sockets the reconnect logic of the session has created
WxReconnectSockets == {s \in WxSockets : wxOrigin[s] = "reconnect"}
C31_Step == WxDisconnected => WxReconnectSockets' = WxReconnectSockets
\* C31: after disconnectWebSocket() the Messaging-Service Session opens no
\* new WebSocket connection, also when a reconnect is already scheduled
\* (backoff wait or reconnect timer pending) at the time of the call.
C31_NoConnectAfterDisconnect == [][C31_Step]_vars

(***************************************************************************)
(* C32: disconnect() and a scheduled reconnect of the gateway (SpecDelay)  *)
(***************************************************************************)
\* disconnect() is the only operation that clears shouldReconnect
GwDisconnected == ~shouldReconnect
\* the sockets the reconnect logic has created by calling connect()
ReconnectSockets == {s \in Sockets : origin[s] = "reconnect"}
C32_Step ==
  GwDisconnected =>
    /\ ReconnectSockets' = ReconnectSockets
    /\ rcBackoff' <= rcBackoff
    /\ rcTimer' + rcBackoff' <= rcTimer + rcBackoff
\* C32: after disconnect() the reconnect logic never calls connect() again
\* and schedules no further reconnect, also when a reconnect is already
\* scheduled at the time of the call or the close event of the old
\* transport arrives after it.
C32_NoReconnectAfterDisconnect == [][C32_Step]_vars
\* disconnect() came while a reconnect was scheduled, its timer has fired
\* without a connect(), and the old transport has closed after that
C32_Witness ==
  /\ GwDisconnected
  /\ \E i \in 1..Len(rcWaits) : rcWaits[i].stage = "dropped"
  /\ ReconnectSockets = {}
  /\ rcBackoff = 0 /\ rcTimer = 0
  /\ \E s \in Sockets : sock[s] = "closed"

(***************************************************************************)
(* C33: authenticated implies connected (SpecHandshake)                    *)
(***************************************************************************)
\* C33: in every reachable state of the Gateway Session authenticated =
\* true implies connected = true, under every interleaving of open, close,
\* inbound frames (also those delivered after disconnect() or after a
\* close), explicit connect() calls and disconnect().
C33_AuthenticatedImpliesConnected == authenticated => connected

(***************************************************************************)
(* C34: shouldReconnect after disconnect() (SpecReconnect)                 *)
(***************************************************************************)
C34_Step ==
  ~shouldReconnect =>
    /\ ~shouldReconnect'
    /\ rcBackoff' <= rcBackoff
    /\ reconnectAttempts' <= reconnectAttempts
\* C34: once disconnect() has been called, shouldReconnect is false in
\* every later state: no operation, a later explicit connect() included,
\* sets it back to true, and a close after such a connect() schedules no
\* reconnect.
C34_ShouldReconnectStaysFalse == [][C34_Step]_vars
\* connect() was called again after disconnect(); its transport opened and
\* closed, and no reconnect is scheduled
C34_Witness ==
  /\ ~shouldReconnect
  /\ ws = 2 /\ origin[2] = "explicit" /\ sock[2] = "closed"
  /\ rcBackoff = 0 /\ rcTimer = 0

(***************************************************************************)
(* C35: an unexpected close and the pending entries (Spec)                 *)
(***************************************************************************)
\* the ids whose entry leaves the table in this step
Removed == (DOMAIN pendingRequests) \ (DOMAIN pendingRequests')
C35_Step ==
  /\ \A s \in Sockets :
       OnClose(s) => pendingRequests' = pendingRequests /\ settles' = settles
  /\ \A id \in Removed :
       \/ \E ok \in BOOLEAN, st \in ResStatus : HandleRes(id, ok, st)
       \/ \E ph \in Phases : HandleLifecycle(id, ph)
       \/ CallTimeout(id)
       \/ Disconnect
\* C35: a close of the gateway transport leaves pendingRequests unchanged,
\* rejects no caller and removes no entry; an entry leaves the table only
\* by its own terminal res frame, its own terminal stream event, its own
\* timeout or disconnect().
C35_CloseKeepsPending == [][C35_Step]_vars
\* the only transport has closed unexpectedly and an entry registered
\* before the close is still pending and unsettled
C35_Witness ==
  /\ nsock = 1 /\ sock[1] = "closed" /\ shouldReconnect
  /\ \E id \in DOMAIN pendingRequests : settles[id] = << >>

(***************************************************************************)
(* C36: every message of an allowed sender is answered                     *)
(* (SpecOrchestratorFair)                                                  *)
(***************************************************************************)
\* the k-th inbound message has been received / has led to a send
Received(k) == Len(msgs) >= k
Answered(k) == Len(msgs) >= k /\ msgs[k].sends # << >>
\* C36: every inbound message from an allowed sender eventually leads to
\* at least one outbound message to that sender (reply text, media or the
\* apology), also when the agent call resolves with an empty text.
C36_EventuallyAnswered ==
  \A k \in 1..MaxMsgsReply : Received(k) ~> Answered(k)

(***************************************************************************)
(* C37: stream events with several calls pending (SpecMulti)               *)
(***************************************************************************)
\* an agent stream event with runId r is handled in this step
StreamEvent(r) ==
  \/ \E d \in DataMain : HandleAssistant(r, d, MaxEvents)
  \/ \E ph \in Phases : HandleLifecycle(r, ph)
\* the entry and the settlement of id are as before
Untouched(id) ==
  /\ settles'[id] = settles[id]
  /\ (id \in DOMAIN pendingRequests) = (id \in DOMAIN pendingRequests')
  /\ id \in DOMAIN pendingRequests => pendingRequests'[id] = pendingRequests[id]
  /\ (id \in timers) = (id \in timers')
C37_Step ==
  \A r \in CallIds :
    StreamEvent(r) =>
      /\ \A id \in CallIds \ {r} : Untouched(id)
      /\ r \notin DOMAIN pendingRequests => Untouched(r)
\* C37: with several agent calls pending, a stream event with runId r
\* changes only the buffer and the settlement of the pending call whose id
\* is r; an event whose runId matches no pending entry changes no buffer,
\* settles no call and removes no entry.
C37_EventsTouchOwnCallOnly == [][C37_Step]_vars
\* two agent calls were pending; one has ended with its own text while the
\* other is still pending with the text it has received
C37_Witness ==
  \E r1, r2 \in CallIds :
    /\ r1 # r2
    /\ Settled(r1, "end") /\ evlog[r1] # << >>
    /\ r2 \in DOMAIN pendingRequests
    /\ pendingRequests[r2].kind = "agent"
    /\ pendingRequests[r2].buffer # << >>
    /\ settles[r2] = << >>

(***************************************************************************)
(* C38: one transport and one scheduled reconnect at a time (SpecReconnect)*)
(***************************************************************************)
\* connect() was called from outside at most once, disconnect() never
SingleConnect ==
  /\ Cardinality({s \in Sockets : origin[s] = "explicit"}) <= 1
  /\ shouldReconnect
\* the transports that are open or opening
ActiveSockets == {s \in Sockets : sock[s] \in {"connecting", "open"}}
\* the reconnects scheduled: in the backoff wait or with the timer armed
ScheduledReconnects == rcBackoff + rcTimer
\* C38: as long as connect() is called externally only once and
\* disconnect() is not called, at most one transport is open or opening
\* and at most one reconnect is scheduled, and never both: a single close
\* never leads to two concurrent connection attempts.
C38_SingleTransport ==
  SingleConnect =>
    /\ Cardinality(ActiveSockets) <= 1
    /\ ScheduledReconnects <= 1
    /\ Cardinality(ActiveSockets) + ScheduledReconnects <= 1
\* after two closes the second reconnect attempt is the only transport
C38_Witness ==
  /\ SingleConnect
  /\ nsock = 3 /\ origin[3] = "reconnect"
  /\ ActiveSockets = {3}
  /\ ScheduledReconnects = 0

(***************************************************************************)
(* C39: every call that passes its precondition settles                    *)
(***************************************************************************)
\* the invocation passed its precondition: its entry has been registered
Registered(id) == id \in DOMAIN pendingRequests

\* the caller's promise has been resolved or rejected
HasSettled(id) == Len(settles[id]) >= 1

\* the frame of the call was handed to a transport
FrameSent(id) == \E i \in 1..Len(sent) : sent[i] = id

\* scheduleReconnect() has given up: the attempts are used up, nothing is
\* scheduled and no transport is left
ReconnectExhausted ==
  /\ shouldReconnect
  /\ reconnectAttempts = MaxReconnectAttempts
  /\ rcBackoff = 0 /\ rcTimer = 0
  /\ \A s \in Sockets : sock[s] \in {"none", "closed", "failed"}

\* C39: every request() or callAgent() invocation that passes its connection
\* precondition eventually settles, given that armed timers fire -- also when
\* its frame could not be sent, when the transport closes before any
\* response, and when the reconnect attempts are exhausted.
C39_EveryCallSettles ==
  \A id \in CallIds : Registered(id) ~> HasSettled(id)

\* a call whose frame was never sent is rejected by its own timer after the
\* transports have closed and the reconnect attempts are exhausted
C39_Witness ==
  \E id \in CallIds :
    /\ Settled(id, "timeout")
    /\ ~FrameSent(id)
    /\ ReconnectExhausted

(***************************************************************************)
(* C40: concurrent handlers keep to their own sender                       *)
(***************************************************************************)
\* the handler of message k has made its agent call
MadeCall(k) == msgs[k].call # 0

\* the sender a session key names
KeySender(key) == key[Len(key)]

\* the handler of message k has sent the reply of an agent call
Replied(k) == msgs[k].reply \in {"text", "files", "images"}

\* C40: under any interleaving of concurrently handled inbound messages,
\* every send made while handling a message (pairing confirmation, reply
\* text, media, failure notice, apology) is addressed to that message's
\* sender, its agent call carries the session key of that sender and is
\* the call of no other message, and a reply is sent only on the result of
\* the message's own call.
C40_SendsToOwnSender ==
  \A k \in 1..Len(msgs) :
    /\ \A i \in 1..Len(msgs[k].sends) : msgs[k].sends[i].to = msgs[k].from
    /\ MadeCall(k) =>
         /\ Len(msgs[k].sessionKey) = 2
         /\ KeySender(msgs[k].sessionKey) = msgs[k].from
         /\ \A j \in 1..Len(msgs) : j # k => msgs[j].call # msgs[k].call
    /\ Replied(k) =>
         /\ MadeCall(k)
         /\ Len(settles[AgentId(msgs[k].call)]) = 1
         /\ settles[AgentId(msgs[k].call)][1].kind = "resolve"

\* two senders' messages in flight at once: the later message has got its
\* reply with a failed media send and its notice while the handler of the
\* earlier one is still awaiting its call
C40_Witness ==
  /\ Len(msgs) = 2
  /\ msgs[1].from # msgs[2].from
  /\ msgs[1].pc = "await"
  /\ msgs[2].pc = "done" /\ msgs[2].reply = "files"
  /\ \E i \in 1..Len(msgs[2].sends) : msgs[2].sends[i].kind = "notice"

====
